---- MODULE Spec2Model ----
(***************************************************************************)
(* StoryForge: the story aggregate, its mutation controllers               *)
(* (ElementController, RelationshipController, StoryController) and the    *)
(* StoryProvider state container with its debounced autosave, its         *)
(* generation requests (AIService, the generate endpoint) and persistence  *)
(* (StorageService over localStorage and Supabase).                        *)
(*                                                                         *)
(* JavaScript strings are sequences of tokens (<<"A">>, <<" ">>,           *)
(* <<"character","s">>), so concatenation, trim() and slice() are computed *)
(* and not assumed.  undefined and null are the one-token sequences        *)
(* Undefined and Null.  A key an object does not have is Absent: the       *)
(* object spread {...data} copies a key that is present with the value     *)
(* undefined and skips a key that is absent, and JSON drops a key whose    *)
(* value is undefined.  generateId() is taken to return a fresh identifier *)
(* on every call (a time stamp and nine random characters in the code).    *)
(***************************************************************************)
EXTENDS Integers, Sequences, FiniteSets, TLC

VARIABLES
  story,      \* state.story of the StoryProvider (NoStory when null)
  error,      \* state.error
  loading,    \* state.loading
  nextId,     \* number of identifiers generateId() has handed out
  clock,      \* the wall clock in ms (Date.now / createTimestamp)
  timers,     \* pending autosave timeouts: records [due, snap]
  inflight,   \* asynchronous calls not yet resumed: loadStories, saves
  storage,    \* the persisted story (local backend), or NoStory
  rows,       \* the rows of the remote backend's stories table
  configured, \* isSupabaseConfigured()
  deletion,   \* the deleteStory call of the run: [id, steps, done]
  lastChange, \* history: clock value of the last change of state.story
  saveCount,  \* history: number of saves started so far
  isGenerating,        \* state.isGenerating
  continuationOptions, \* state.continuationOptions (NoOptions when null)
  steps,      \* history: number of operations applied so far
  budget,     \* the number of operations a run may apply
  origin,     \* history: how the resident story was first made
  made,       \* history: the snapshots createVersion appended, oldest first
  prev,       \* history: state.story before the last operation
  last        \* history: the last operation, its arguments and its result

vars == <<story, error, loading, nextId, clock, timers, inflight, storage,
          rows, configured, deletion, lastChange, saveCount, isGenerating, continuationOptions, steps,
          budget, origin, made, prev, last>>

(***************************************************************************)
(* Bounds of the model.                                                    *)
(***************************************************************************)
MaxElementSteps == 2    \* operations per run of SpecElements
MaxChapterSteps == 3    \* operations per run of SpecChapters
MaxVersionSteps == 4    \* operations per run of SpecVersions
MaxUserSteps == 2       \* user operations per run of SpecAutosave
MaxClock == 6000        \* SpecAutosave stops the clock here (ms)
TickMs == 1000          \* the largest step of the clock (ms)

(***************************************************************************)
(* JavaScript values.                                                      *)
(***************************************************************************)
Undefined == <<"undefined">>
Null == <<"null">>
Absent == <<"absent">>
NoStory == [none |-> TRUE]
NoOptions == [none |-> TRUE]
NoDeletion == [none |-> TRUE]

Falsy(v) == v \in {Undefined, Null, Absent, <<>>}

OrElse(v, d) == IF Falsy(v) THEN d ELSE v

Digits == <<"0", "1", "2", "3", "4", "5", "6", "7", "8", "9",
            "a", "b", "c", "d", "e", "f", "g", "h", "i", "j">>

\* generateId(): `${Date.now()}_${random}`; two calls never return the same
\* string, which the counter n stands for.
generateId(n) == <<"#", Digits[n + 1]>>

createTimestamp == clock

RECURSIVE trimStart(_)
trimStart(s) ==
  IF s # <<>> /\ Head(s) = " " THEN trimStart(Tail(s)) ELSE s

RECURSIVE trimEnd(_)
trimEnd(s) ==
  IF s # <<>> /\ s[Len(s)] = " " THEN trimEnd(SubSeq(s, 1, Len(s) - 1)) ELSE s

trim(s) == trimEnd(trimStart(s))

\* Array.prototype.filter: the elements whose positions are in K, in order
RECURSIVE PickFrom(_, _, _)
PickFrom(s, K, i) ==
  IF i > Len(s) THEN <<>>
  ELSE (IF i \in K THEN <<s[i]>> ELSE <<>>) \o PickFrom(s, K, i + 1)

Pick(s, K) == PickFrom(s, K, 1)

SeqRange(s) == {s[i] : i \in 1..Len(s)}

Min(a, b) == IF a <= b THEN a ELSE b

(***************************************************************************)
(* models/Element                                                          *)
(***************************************************************************)
ELEMENT_TYPES ==
  {<<"character">>, <<"antagonist">>, <<"location">>, <<"arc">>, <<"theme">>}

\* Object.keys(ELEMENT_TYPES), in declaration order
ELEMENT_TYPE_ORDER ==
  <<(<<"character">>), (<<"antagonist">>), (<<"location">>), (<<"arc">>),
    (<<"theme">>)>>

requiredFields(type) == {"name"}

getElementStorageKey(type) == type \o <<"s">>

\* createElement(type, data): Threw when the type is unknown; otherwise the
\* generated defaults overridden by every key present in data.
Threw == [threw |-> TRUE]

createElement(type, data, n) ==
  IF type \notin ELEMENT_TYPES THEN Threw
  ELSE [id   |-> IF data.id = Absent THEN generateId(n) ELSE data.id,
        type |-> IF data.type = Absent THEN type ELSE data.type,
        name |-> data.name]

\* validateElement(element, type): the list of error messages
validateElement(element, type) ==
  IF type \notin ELEMENT_TYPES THEN <<"Invalid element type">>
  ELSE IF Falsy(element.name) \/ trim(element.name) = <<>>
       THEN <<"name is required">>
  ELSE <<>>

(***************************************************************************)
(* models/Relationship                                                     *)
(***************************************************************************)
RELATIONSHIP_TYPES ==
  {<<"ally">>, <<"enemy">>, <<"family">>, <<"romantic">>, <<"mentor">>,
   <<"rival">>, <<"located_in">>, <<"drives">>, <<"opposes">>, <<"embodies">>}

getRelationshipType(typeId) == typeId \in RELATIONSHIP_TYPES

createRelationship(sourceId, targetId, type, n) ==
  IF Falsy(sourceId) \/ Falsy(targetId) THEN Threw
  ELSE IF ~getRelationshipType(type) THEN Threw
  ELSE [id |-> generateId(n), sourceId |-> sourceId, targetId |-> targetId,
        type |-> type]

\* Faulty variant: only the stored direction is recognised
relationshipExists_oneWay(relationships, sourceId, targetId) ==
  \E i \in 1..Len(relationships) :
    relationships[i].sourceId = sourceId /\ relationships[i].targetId = targetId

relationshipExists(relationships, sourceId, targetId) ==
  \E i \in 1..Len(relationships) :
    \/ relationships[i].sourceId = sourceId /\ relationships[i].targetId = targetId
    \/ relationships[i].sourceId = targetId /\ relationships[i].targetId = sourceId

removeRelationshipsForElement(relationships, elementId) ==
  Pick(relationships,
       {i \in 1..Len(relationships) :
          relationships[i].sourceId # elementId
          /\ relationships[i].targetId # elementId})

\* validateRelationship(relationship): the set of <<field, message>> errors
validateRelationship(r) ==
  (IF Falsy(r.sourceId) THEN {<<"sourceId", "Source element is required">>} ELSE {})
  \cup (IF Falsy(r.targetId) THEN {<<"targetId", "Target element is required">>} ELSE {})
  \cup (IF Falsy(r.type) THEN {<<"type", "Relationship type is required">>}
        ELSE IF ~getRelationshipType(r.type) THEN {<<"type", "Invalid relationship type">>}
        ELSE {})
  \cup (IF r.sourceId = r.targetId
        THEN {<<"general", "Cannot create relationship with self">>} ELSE {})

(***************************************************************************)
(* models/Story                                                            *)
(***************************************************************************)
maxVersions == 3

createChapter(title, content, n) ==
  [id |-> generateId(n),
   title |-> IF title = Undefined THEN <<"New Chapter">> ELSE title,
   content |-> IF content = Undefined THEN <<>> ELSE content]

\* story.elements is a function on its keys; story.elementKeys lists the keys
\* in insertion order (Object.keys / Object.entries iterate in that order).
EmptyElements ==
  [k \in {getElementStorageKey(t) : t \in ELEMENT_TYPES} |-> <<>>]

\* createStory(title): consumes two identifiers (story, first chapter)
createStory(title, n) ==
  [id |-> generateId(n),
   title |-> title,
   genre |-> <<>>,
   tone |-> <<>>,
   synopsis |-> <<>>,
   elementKeys |-> [i \in 1..Len(ELEMENT_TYPE_ORDER) |->
                     getElementStorageKey(ELEMENT_TYPE_ORDER[i])],
   elements |-> EmptyElements,
   relationships |-> <<>>,
   chapters |-> <<createChapter(<<"Chapter ", "1">>, Undefined, n + 1)>>,
   currentChapterIndex |-> 0,
   versions |-> <<>>,
   currentVersion |-> 1,
   updatedAt |-> createTimestamp]

createVersionSnapshot(s, summary, n) ==
  [id |-> generateId(n),
   version |-> s.currentVersion,
   summary |-> summary,
   snapshotData |->
     [synopsis |-> s.synopsis,
      elementsCount |->
        [characters  |-> Len(s.elements[<<"character", "s">>]),
         antagonists |-> Len(s.elements[<<"antagonist", "s">>]),
         locations   |-> Len(s.elements[<<"location", "s">>]),
         arcs        |-> Len(s.elements[<<"arc", "s">>]),
         themes      |-> Len(s.elements[<<"theme", "s">>])],
      chaptersCount |-> Len(s.chapters),
      relationshipsCount |-> Len(s.relationships)]]

(***************************************************************************)
(* utils/helpers                                                           *)
(***************************************************************************)
\* deepClone(obj) == JSON.parse(JSON.stringify(obj)).  Of the values a story
\* holds only undefined is changed by the round trip: a property whose
\* value is undefined is dropped, so the copy has no such property.
jsonValue(v) == IF v = Undefined THEN Absent ELSE v

jsonElement(e) == [f \in DOMAIN e |-> jsonValue(e[f])]

jsonStory(s) ==
  [s EXCEPT !.elements =
     [k \in DOMAIN s.elements |->
        [i \in 1..Len(s.elements[k]) |-> jsonElement(s.elements[k][i])]]]

\* The controllers work on two objects: the argument ("arg") and the copy
\* deepClone returns ("clone").  deepClone fills the copy and names it as
\* the object the following assignments write to.

\* Faulty variant: no copy is made, the assignments write to the argument
deepClone_alias(heap) == [heap |-> heap, ref |-> "arg"]

deepClone(heap) ==
  [heap |-> [heap EXCEPT !.clone = jsonStory(heap.arg)], ref |-> "clone"]

NewHeap(s) == [arg |-> s, clone |-> NoStory]

\* updatedStory.<field> = ... on the object named by c.ref
Assign(c, s) == [c EXCEPT !.heap[c.ref] = s]

Deref(c) == c.heap[c.ref]

\* {...el, ...updates}: every key of updates replaces el's
spread(el, updates) ==
  [f \in DOMAIN el \cup DOMAIN updates |->
     IF f \in DOMAIN updates THEN updates[f] ELSE el[f]]

(***************************************************************************)
(* controllers/ElementController                                           *)
(***************************************************************************)
\* getById(story, id): the first match in Object.entries order, tagged with
\* the KEY of the bucket it was found in ({...found, type}); NotFound for null
NotFound == [notFound |-> TRUE]

RECURSIVE EC_getByIdFrom(_, _, _)
EC_getByIdFrom(s, id, k) ==
  IF k > Len(s.elementKeys) THEN NotFound
  ELSE LET key == s.elementKeys[k]
           hits == {i \in 1..Len(s.elements[key]) : s.elements[key][i].id = id}
       IN IF hits # {}
          THEN [s.elements[key][CHOOSE i \in hits : \A j \in hits : i <= j]
                  EXCEPT !.type = key]
          ELSE EC_getByIdFrom(s, id, k + 1)

EC_getById(s, id) ==
  IF Falsy(id) THEN NotFound ELSE EC_getByIdFrom(s, id, 1)

\* getStats(story): the number of elements per element type, read from
\* story.elements[type]
EC_getStats(s) ==
  [t \in ELEMENT_TYPES |->
     IF t \in DOMAIN s.elements THEN Len(s.elements[t]) ELSE 0]

\* updatedStory.elements[key].push(element), creating the bucket if missing
pushElement(s, key, element) ==
  IF key \in DOMAIN s.elements
  THEN [s EXCEPT !.elements[key] = Append(@, element)]
  ELSE [s EXCEPT !.elementKeys = Append(@, key),
                 !.elements = (key :> <<element>>) @@ @]

\* create(story, type, data): {story, element, errors}; "input" is the
\* argument object as it is after the call.
EC_create(s, type, data, n) ==
  IF type \notin ELEMENT_TYPES
  THEN [story |-> s, element |-> Null,
        errors |-> {<<"type", "Invalid element type">>}, input |-> s]
  ELSE
    LET element == createElement(type, data, n)
        validation == validateElement(element, type)
    IN IF validation # <<>>
       THEN [story |-> s, element |-> Null,
             errors |-> {<<"field", i - 1, validation[i]>> : i \in 1..Len(validation)},
             input |-> s]
       ELSE
         LET c0 == deepClone(NewHeap(s))
             c1 == Assign(c0, pushElement(Deref(c0), type, element))
             c2 == Assign(c1, [Deref(c1) EXCEPT !.updatedAt = createTimestamp])
         IN [story |-> Deref(c2), element |-> element, errors |-> {},
             input |-> c2.heap.arg]

\* update(story, id, updates): {story, element, errors}; the merge keeps the
\* id and the type getById reported, and validateElement is given that type
EC_update(s, id, updates) ==
  LET existing == EC_getById(s, id)
  IN IF existing = NotFound
     THEN [story |-> s, element |-> Null,
           errors |-> {<<"id", "Element not found">>}, input |-> s]
     ELSE
       LET updatedElement ==
             [spread(existing, updates) EXCEPT !.id = id,
                                               !.type = existing.type]
           validation == validateElement(updatedElement, existing.type)
       IN IF validation # <<>>
          THEN [story |-> s, element |-> Null,
                errors |-> {<<"field", i - 1, validation[i]>> :
                              i \in 1..Len(validation)},
                input |-> s]
          ELSE
            LET c0 == deepClone(NewHeap(s))
                typeArray == Deref(c0).elements[existing.type]
                hits == {i \in 1..Len(typeArray) : typeArray[i].id = id}
                c1 == IF hits = {} THEN c0
                      ELSE Assign(c0,
                             [Deref(c0) EXCEPT
                                !.elements[existing.type]
                                   [CHOOSE i \in hits : \A j \in hits : i <= j] =
                                     updatedElement,
                                !.updatedAt = createTimestamp])
            IN [story |-> Deref(c1), element |-> updatedElement,
                errors |-> {}, input |-> c1.heap.arg]

\* `${elementData.name} (Copy)`: a name that is missing reads "undefined"
copyName(name) ==
  (IF name = Absent THEN Undefined ELSE name) \o <<" (Copy)">>

\* duplicate(story, id): {story, element, errors}; the data handed to create
\* is the element without its type, with id: undefined and the new name
EC_duplicate(s, id, n) ==
  LET existing == EC_getById(s, id)
  IN IF existing = NotFound
     THEN [story |-> s, element |-> Null,
           errors |-> {<<"id", "Element not found">>}, input |-> s]
     ELSE EC_create(s, existing.type,
                    [id |-> Undefined, type |-> Absent,
                     name |-> copyName(existing.name)], n)

\* Faulty variant: the element is removed and not inserted again
moveItem_drop(list, fromIndex, toIndex) ==
  Pick(list, {i \in 1..Len(list) : i # fromIndex + 1})

\* elements.splice(fromIndex, 1) followed by elements.splice(toIndex, 0, removed)
moveItem(list, fromIndex, toIndex) ==
  LET removed == list[fromIndex + 1]
      rest == Pick(list, {i \in 1..Len(list) : i # fromIndex + 1})
  IN SubSeq(rest, 1, toIndex) \o <<removed>> \o SubSeq(rest, toIndex + 1, Len(rest))

\* reorder(story, type, fromIndex, toIndex): the story returned, whether it
\* is the argument object itself, and the argument object after the call
EC_reorder(s, type, fromIndex, toIndex) ==
  IF type \notin DOMAIN s.elements
  THEN [story |-> s, same |-> TRUE, input |-> s]
  ELSE
    LET c0 == deepClone(NewHeap(s))
        elements == Deref(c0).elements[type]
    IN IF fromIndex < 0 \/ fromIndex >= Len(elements)
       THEN [story |-> c0.heap.arg, same |-> TRUE, input |-> c0.heap.arg]
       ELSE IF toIndex < 0 \/ toIndex >= Len(elements)
       THEN [story |-> c0.heap.arg, same |-> TRUE, input |-> c0.heap.arg]
       ELSE
         LET c1 == Assign(c0, [Deref(c0) EXCEPT
                                 !.elements[type] =
                                   moveItem(elements, fromIndex, toIndex),
                                 !.updatedAt = createTimestamp])
         IN [story |-> Deref(c1), same |-> FALSE, input |-> c1.heap.arg]

\* remove(story, id): {story, deleted, errors}
EC_remove(s, id) ==
  LET existing == EC_getById(s, id)
  IN IF existing = NotFound
     THEN [story |-> s, deleted |-> FALSE,
           errors |-> {<<"id", "Element not found">>}, input |-> s]
     ELSE
       LET c0 == deepClone(NewHeap(s))
           bucket == Deref(c0).elements[existing.type]
           c1 == Assign(c0, [Deref(c0) EXCEPT !.elements[existing.type] =
                   Pick(bucket, {i \in 1..Len(bucket) : bucket[i].id # id})])
           rels == Deref(c1).relationships
           c2 == Assign(c1, [Deref(c1) EXCEPT !.relationships =
                   Pick(rels, {i \in 1..Len(rels) :
                                 rels[i].sourceId # id /\ rels[i].targetId # id})])
           c3 == Assign(c2, [Deref(c2) EXCEPT !.updatedAt = createTimestamp])
       IN [story |-> Deref(c3), deleted |-> TRUE, errors |-> {},
           input |-> c3.heap.arg]

(***************************************************************************)
(* controllers/RelationshipController                                      *)
(***************************************************************************)
\* canCreate(story, sourceId, targetId, type): the reason, or Null when the
\* relationship can be created
RC_canCreate(s, sourceId, targetId, type) ==
  IF sourceId = targetId THEN <<"Cannot create relationship with self">>
  ELSE IF relationshipExists(s.relationships, sourceId, targetId)
       THEN <<"Relationship already exists">>
  ELSE IF ~getRelationshipType(type) THEN <<"Invalid relationship type">>
  ELSE Null

\* create(story, data): {story, relationship, errors}, or Threw
RC_create(s, data, n) ==
  LET reason == RC_canCreate(s, data.sourceId, data.targetId, data.type)
  IN IF reason # Null
     THEN [story |-> s, relationship |-> Null,
           errors |-> {<<"general", reason>>}, input |-> s, threw |-> FALSE]
     ELSE
       LET relationship ==
             createRelationship(data.sourceId, data.targetId, data.type, n)
       IN IF relationship = Threw
          THEN [story |-> s, relationship |-> Null, errors |-> {},
                input |-> s, threw |-> TRUE]
          ELSE IF validateRelationship(relationship) # {}
          THEN [story |-> s, relationship |-> Null,
                errors |-> validateRelationship(relationship),
                input |-> s, threw |-> FALSE]
          ELSE
            LET c0 == deepClone(NewHeap(s))
                c1 == Assign(c0, [Deref(c0) EXCEPT !.relationships =
                                    Append(@, relationship)])
                c2 == Assign(c1, [Deref(c1) EXCEPT !.updatedAt = createTimestamp])
            IN [story |-> Deref(c2), relationship |-> relationship,
                errors |-> {}, input |-> c2.heap.arg, threw |-> FALSE]

\* getById(story, id) of RelationshipController: the relationship, or NotFound
RC_getById(s, id) ==
  LET hits == {i \in 1..Len(s.relationships) : s.relationships[i].id = id}
  IN IF hits = {} THEN NotFound
     ELSE s.relationships[CHOOSE i \in hits : \A j \in hits : i <= j]

\* update(story, id, updates): {story, relationship, errors}; the merge keeps
\* the id, the sourceId and the targetId of the stored relationship
RC_update(s, id, updates) ==
  LET existing == RC_getById(s, id)
  IN IF existing = NotFound
     THEN [story |-> s, relationship |-> Null,
           errors |-> {<<"id", "Relationship not found">>}, input |-> s]
     ELSE
       LET merged == spread(existing, updates)
           updatedRelationship ==
             [merged EXCEPT !.id = id,
                            !.sourceId = existing.sourceId,
                            !.targetId = existing.targetId]
           errors == validateRelationship(updatedRelationship)
       IN IF errors # {}
          THEN [story |-> s, relationship |-> Null, errors |-> errors,
                input |-> s]
          ELSE
            LET c0 == deepClone(NewHeap(s))
                rels == Deref(c0).relationships
                hits == {i \in 1..Len(rels) : rels[i].id = id}
                index == CHOOSE i \in hits : \A j \in hits : i <= j
                c1 == Assign(c0, [Deref(c0) EXCEPT
                                    !.relationships[index] = updatedRelationship,
                                    !.updatedAt = createTimestamp])
            IN [story |-> Deref(c1), relationship |-> updatedRelationship,
                errors |-> {}, input |-> c1.heap.arg]

\* swapDirection(story, id)
RC_swapDirection(s, id) ==
  LET existing == RC_getById(s, id)
  IN IF existing = NotFound
     THEN [story |-> s, relationship |-> Null,
           errors |-> {<<"id", "Relationship not found">>}, input |-> s]
     ELSE RC_update(s, id, [sourceId |-> existing.targetId,
                            targetId |-> existing.sourceId])

(***************************************************************************)
(* controllers/StoryController                                             *)
(***************************************************************************)
REGENERATION_TRIGGER_FIELDS == <<"genre", "tone", "synopsis">>

\* str.length: every token of a text is one character, the paragraph break
\* "\n\n" two
RECURSIVE length(_)
length(str) ==
  IF str = <<>> THEN 0
  ELSE (IF str[1] = "\n\n" THEN 2 ELSE 1) + length(Tail(str))

SubstantialElements == 2
SubstantialLength == 100

RECURSIVE elementCountFrom(_, _)
elementCountFrom(s, k) ==
  IF k > Len(s.elementKeys) THEN 0
  ELSE Len(s.elements[s.elementKeys[k]]) + elementCountFrom(s, k + 1)

\* Faulty variant: a chapter of exactly 100 characters counts as well
hasSubstantialContent_inclusive(s) ==
  \/ elementCountFrom(s, 1) > SubstantialElements
  \/ \E i \in 1..Len(s.chapters) :
       /\ s.chapters[i].content \notin {Null, Undefined, Absent}
       /\ length(s.chapters[i].content) >= SubstantialLength

\* hasSubstantialContent(story)
hasSubstantialContent(s) ==
  \/ elementCountFrom(s, 1) > SubstantialElements
  \/ \E i \in 1..Len(s.chapters) :
       /\ s.chapters[i].content \notin {Null, Undefined, Absent}
       /\ length(s.chapters[i].content) > SubstantialLength

\* updates[field]: undefined for a key the updates do not have
fieldOf(updates, field) ==
  IF field \in DOMAIN updates THEN updates[field] ELSE Undefined

\* updateFields(story, updates): {story, shouldPromptRegeneration, changedFields}
updateFields(s, updates) ==
  LET changedTriggerFields ==
        Pick(REGENERATION_TRIGGER_FIELDS,
             {i \in 1..Len(REGENERATION_TRIGGER_FIELDS) :
                LET field == REGENERATION_TRIGGER_FIELDS[i]
                IN /\ fieldOf(updates, field) # Undefined
                   /\ fieldOf(updates, field) # s[field]})
  IN [story |-> [spread(s, updates) EXCEPT !.updatedAt = createTimestamp],
      shouldPromptRegeneration |->
        (Len(changedTriggerFields) > 0 /\ hasSubstantialContent(s)),
      changedFields |-> changedTriggerFields]

\* save(story, userId): the copy handed to StorageService.saveStory
savedCopy(s) == [s EXCEPT !.updatedAt = createTimestamp]

addElement(s, elementType, elementData, n) ==
  LET key == getElementStorageKey(elementType)
      element == createElement(elementType, elementData, n)
  IN IF element = Threw THEN Threw
     ELSE [pushElement(s, key, element) EXCEPT !.updatedAt = createTimestamp]

updateElement(s, elementType, elementId, updates) ==
  LET key == getElementStorageKey(elementType)
  IN IF key \notin DOMAIN s.elements THEN Threw
     ELSE [s EXCEPT
             !.elements[key] =
               [i \in 1..Len(@) |->
                  IF @[i].id = elementId THEN spread(@[i], updates) ELSE @[i]],
             !.updatedAt = createTimestamp]

removeElement(s, elementType, elementId) ==
  LET key == getElementStorageKey(elementType)
  IN IF key \notin DOMAIN s.elements THEN Threw
     ELSE [s EXCEPT
             !.elements[key] =
               Pick(@, {i \in 1..Len(@) : @[i].id # elementId}),
             !.relationships = removeRelationshipsForElement(@, elementId),
             !.updatedAt = createTimestamp]

addRelationship(s, sourceId, targetId, type, n) ==
  LET relationship == createRelationship(sourceId, targetId, type, n)
  IN IF relationship = Threw THEN Threw
     ELSE [s EXCEPT !.relationships = Append(@, relationship),
                    !.updatedAt = createTimestamp]

removeRelationship(s, relationshipId) ==
  [s EXCEPT !.relationships =
              Pick(@, {i \in 1..Len(@) : @[i].id # relationshipId}),
            !.updatedAt = createTimestamp]

addChapter(s, title, n) ==
  LET chapterNum == Len(s.chapters) + 1
      chapter == createChapter(OrElse(title, <<"Chapter ", Digits[chapterNum + 1]>>),
                               Undefined, n)
  IN [s EXCEPT !.chapters = Append(@, chapter),
               !.currentChapterIndex = Len(s.chapters),
               !.updatedAt = createTimestamp]

\* chapterIndex counts from 0, as in the code
updateChapter(s, chapterIndex, updates) ==
  [s EXCEPT !.chapters =
              [i \in 1..Len(@) |->
                 IF i - 1 = chapterIndex THEN spread(@[i], updates) ELSE @[i]],
            !.updatedAt = createTimestamp]

\* Faulty variant: the only chapter can be removed
removeChapter_noGuard(s, chapterIndex) ==
  [s EXCEPT !.chapters = Pick(@, {i \in 1..Len(@) : i - 1 # chapterIndex}),
            !.currentChapterIndex =
              Min(s.currentChapterIndex, Len(s.chapters) - 2),
            !.updatedAt = createTimestamp]

\* Faulty variant: currentChapterIndex is left as it was
removeChapter_noClamp(s, chapterIndex) ==
  IF Len(s.chapters) <= 1 THEN Threw
  ELSE [s EXCEPT !.chapters = Pick(@, {i \in 1..Len(@) : i - 1 # chapterIndex}),
                 !.updatedAt = createTimestamp]

removeChapter(s, chapterIndex) ==
  IF Len(s.chapters) <= 1 THEN Threw
  ELSE [s EXCEPT !.chapters = Pick(@, {i \in 1..Len(@) : i - 1 # chapterIndex}),
                 !.currentChapterIndex =
                   Min(s.currentChapterIndex, Len(s.chapters) - 2),
                 !.updatedAt = createTimestamp]

\* Faulty variant: the newest entries are dropped
sliceLast_keepOldest(versions, k) ==
  IF Len(versions) > k THEN SubSeq(versions, 1, k) ELSE versions

\* versions.slice(-maxVersions)
sliceLast(versions, k) ==
  IF Len(versions) > k
  THEN SubSeq(versions, Len(versions) - k + 1, Len(versions))
  ELSE versions

createVersion(s, summary, n) ==
  LET snapshot == createVersionSnapshot(s, summary, n)
      versions == Append(s.versions, snapshot)
  IN [s EXCEPT !.versions = IF Len(versions) > maxVersions
                            THEN sliceLast(versions, maxVersions)
                            ELSE versions,
               !.currentVersion = s.currentVersion + 1,
               !.updatedAt = createTimestamp]

\* findElementId(story, idOrName): the id of the first element, in
\* ELEMENT_TYPES order of the plural buckets, whose id or name matches
RECURSIVE findElementIdFrom(_, _, _)
findElementIdFrom(s, idOrName, k) ==
  IF k > Len(ELEMENT_TYPE_ORDER) THEN Null
  ELSE LET key == getElementStorageKey(ELEMENT_TYPE_ORDER[k])
           bucket == IF key \in DOMAIN s.elements THEN s.elements[key] ELSE <<>>
           hits == {i \in 1..Len(bucket) :
                      bucket[i].id = idOrName \/ bucket[i].name = idOrName}
       IN IF hits # {}
          THEN bucket[CHOOSE i \in hits : \A j \in hits : i <= j].id
          ELSE findElementIdFrom(s, idOrName, k + 1)

findElementId(s, idOrName) == findElementIdFrom(s, idOrName, 1)

\* The three forEach loops of applyContinuation.  acc is [s, n]: the story
\* so far (Threw once a call has thrown) and the identifiers used so far.
RECURSIVE addNewElementsOfType(_, _, _, _)
addNewElementsOfType(acc, type, items, i) ==
  IF acc.s = Threw \/ i > Len(items) THEN acc
  ELSE addNewElementsOfType(
         [s |-> addElement(acc.s, type, items[i], acc.n), n |-> acc.n + 1],
         type, items, i + 1)

RECURSIVE addNewElements(_, _, _)
addNewElements(acc, newElements, k) ==
  IF acc.s = Threw \/ k > Len(ELEMENT_TYPE_ORDER) THEN acc
  ELSE LET type == ELEMENT_TYPE_ORDER[k]
           key == getElementStorageKey(type)
           items == IF key \in DOMAIN newElements THEN newElements[key] ELSE <<>>
       IN addNewElements(addNewElementsOfType(acc, type, items, 1),
                         newElements, k + 1)

RECURSIVE applyUpdatedElements(_, _, _)
applyUpdatedElements(acc, updatedElements, i) ==
  IF acc.s = Threw \/ i > Len(updatedElements) THEN acc
  ELSE LET u == updatedElements[i]
       IN applyUpdatedElements(
            [acc EXCEPT !.s = updateElement(acc.s, u.type, u.id, u.updates)],
            updatedElements, i + 1)

RECURSIVE addNewRelationships(_, _, _)
addNewRelationships(acc, newRelationships, i) ==
  IF acc.s = Threw \/ i > Len(newRelationships) THEN acc
  ELSE LET rel == newRelationships[i]
           sourceId == findElementId(acc.s, rel.source)
           targetId == findElementId(acc.s, rel.target)
       IN addNewRelationships(
            IF ~Falsy(sourceId) /\ ~Falsy(targetId)
            THEN [s |-> addRelationship(acc.s, sourceId, targetId, rel.type, acc.n),
                  n |-> acc.n + 1]
            ELSE acc,
            newRelationships, i + 1)

\* Faulty variant: the continuation replaces the content
continuedContent_replace(content, chapterContent) == chapterContent

\* (content || '') + '\n\n' + cont.chapterContent

continuedContent(content, chapterContent) ==
  OrElse(content, <<>>) \o <<"\n\n">> \o chapterContent

snapshotSummary(title) == <<"Before: ">> \o title

\* Lines 213-244 of applyContinuation: everything after the snapshot.
\* [s, n], s = Threw when any step throws.  A payload without newElements,
\* updatedElements or newRelationships carries the empty one: the code does
\* the same for both.
continuationChanges(s1, cont, chapterIndex, n) ==
  IF chapterIndex \notin 0..(Len(s1.chapters) - 1)
  THEN [s |-> Threw, n |-> n]
  ELSE
    LET s2 == updateChapter(s1, chapterIndex,
                [content |-> continuedContent(
                               s1.chapters[chapterIndex + 1].content,
                               cont.chapterContent)])
        s3 == IF ~Falsy(cont.synopsis)
              THEN [s2 EXCEPT !.synopsis = cont.synopsis] ELSE s2
        a4 == IF DOMAIN cont.newElements # {}
              THEN addNewElements([s |-> s3, n |-> n], cont.newElements, 1)
              ELSE [s |-> s3, n |-> n]
        a5 == IF Len(cont.updatedElements) > 0
              THEN applyUpdatedElements(a4, cont.updatedElements, 1)
              ELSE a4
    IN IF Len(cont.newRelationships) > 0
       THEN addNewRelationships(a5, cont.newRelationships, 1)
       ELSE a5

\* Faulty variant: the snapshot is taken after the changes
applyContinuation_snapshotLast(s, continuation, chapterIndex, n) ==
  LET a == continuationChanges(s, continuation.continuation, chapterIndex, n)
  IN IF a.s = Threw THEN a
     ELSE [s |-> createVersion(a.s, snapshotSummary(continuation.title), a.n),
           n |-> a.n + 1]

\* applyContinuation(story, continuation, chapterIndex): [s, n], s = Threw
\* when any step throws
applyContinuation(s, continuation, chapterIndex, n) ==
  continuationChanges(
    createVersion(s, snapshotSummary(continuation.title), n),
    continuation.continuation, chapterIndex, n + 1)

\* transformGeneratedStory(generated): Threw when a relationship cannot be
\* built.  The shared timestamp is the token "t"; slice(0, -1) drops the
\* last token of the type name.
slice0m1(str) == SubSeq(str, 1, Len(str) - 1)

generatedId(type, idx) == <<"t">> \o type \o <<Digits[idx + 1]>>

transformGeneratedStory(generated, n) ==
  LET base == createStory(generated.title, n)
      els == [key \in DOMAIN base.elements |->
                LET type == slice0m1(key)
                    items == IF key \in DOMAIN generated.elements
                             THEN generated.elements[key] ELSE <<>>
                IN [i \in 1..Len(items) |->
                      createElement(type,
                                    [items[i] EXCEPT !.id = generatedId(type, i - 1)],
                                    n)]]
      rels == [i \in 1..Len(generated.relationships) |->
                 LET rel == generated.relationships[i]
                     sourceType == OrElse(rel.sourceType, <<"character", "s">>)
                     targetType == OrElse(rel.targetType, <<"character", "s">>)
                 IN createRelationship(
                      generatedId(slice0m1(sourceType), rel.sourceIdx),
                      generatedId(slice0m1(targetType), rel.targetIdx),
                      rel.type, n + 1 + i)]
      nr == Len(generated.relationships)
      chs == [i \in 1..Len(generated.chapters) |->
                createChapter(generated.chapters[i].title,
                              generated.chapters[i].content, n + 1 + nr + i)]
  IN IF \E i \in 1..nr : rels[i] = Threw THEN Threw
     ELSE [base EXCEPT
             !.genre = OrElse(generated.genre, <<>>),
             !.tone = OrElse(generated.tone, <<>>),
             !.synopsis = OrElse(generated.synopsis, <<>>),
             !.elements = els,
             !.relationships = rels,
             !.chapters = IF chs = <<>>
                          THEN <<createChapter(<<"Chapter ", "1">>, Undefined,
                                               n + 2 + nr)>>
                          ELSE chs]

\* Identifiers generateId() hands out during transformGeneratedStory
idsOfTransform(generated) ==
  2 + Len(generated.relationships)
    + (IF generated.chapters = <<>> THEN 1 ELSE Len(generated.chapters))

(***************************************************************************)
(* contexts/StoryContext: the reducer and the autosave effect              *)
(***************************************************************************)
AUTOSAVE_DELAY == 2000

\* Faulty variant: the cleanup cancels nothing
clearTimeout_none(ts) == ts

\* useEffect cleanup: clearTimeout(timeoutId) of the timeout the previous
\* run of the effect set; the effect is the only place that sets timeouts

clearTimeout(ts) == {}

\* The autosave effect, run after a render in which state.story (and with it
\* saveStory) or state.loading changed: s and l are the new values.
autosaveEffect(s, l) ==
  clearTimeout(timers)
    \cup (IF s # NoStory /\ ~l
          THEN {[due |-> clock + AUTOSAVE_DELAY, snap |-> s]} ELSE {})

\* dispatch({type: SET_STORY, payload})
SET_STORY(payload) ==
  /\ story' = payload
  /\ loading' = FALSE
  /\ error' = Null
  /\ timers' = IF payload = NoStory /\ story = NoStory /\ ~loading
               THEN timers ELSE autosaveEffect(payload, FALSE)
  /\ lastChange' = clock

\* Faulty variant: the error is not recorded
SET_ERROR_dropped(payload) ==
  /\ error' = error
  /\ loading' = FALSE
  /\ story' = story
  /\ timers' = IF loading THEN autosaveEffect(story, FALSE) ELSE timers
  /\ lastChange' = lastChange

\* dispatch({type: SET_ERROR, payload})
SET_ERROR(payload) ==
  /\ error' = payload
  /\ loading' = FALSE
  /\ story' = story
  /\ timers' = IF loading THEN autosaveEffect(story, FALSE) ELSE timers
  /\ lastChange' = lastChange

\* dispatch({type: UPDATE_STORY, payload}): {...state.story, ...payload}
UPDATE_STORY(payload) ==
  /\ story' = IF story = NoStory THEN payload ELSE spread(story, payload)
  /\ timers' = autosaveEffect(story', loading)
  /\ lastChange' = clock
  /\ UNCHANGED <<error, loading>>

\* dispatch({type: SET_LOADING, payload})
SET_LOADING(payload) ==
  /\ loading' = payload
  /\ timers' = IF loading # payload THEN autosaveEffect(story, payload) ELSE timers
  /\ UNCHANGED <<story, error, lastChange>>

\* dispatch({type: CLEAR_CONTINUATION_OPTIONS}): the new continuationOptions
CLEAR_CONTINUATION_OPTIONS == NoOptions

\* A handler that ends without a dispatch: the exception leaves it, or its
\* catch block only returns the message
NoDispatch ==
  UNCHANGED <<story, error, loading, timers, lastChange>>

(***************************************************************************)
(* Inputs                                                                  *)
(***************************************************************************)
InTypes == {<<"character">>, <<"location">>, <<"wizard">>}

InNames == {Absent, <<>>, <<" ">>, <<"A">>}

InData == {[id |-> Absent, type |-> Absent, name |-> nm] : nm \in InNames}

InRelTypes == {<<"ally">>, <<"bogus">>}

\* Payloads of the generate endpoint
GenEmpty ==
  [title |-> <<"T">>, genre |-> Undefined, tone |-> Undefined,
   synopsis |-> Undefined, elements |-> <<>>, relationships |-> <<>>,
   chapters |-> <<>>]

GenCast ==
  [title |-> <<"T">>, genre |-> <<"g">>, tone |-> Undefined,
   synopsis |-> <<"syn">>,
   elements |->
     (<<"character", "s">> :>
        <<[id |-> Absent, type |-> Absent, name |-> <<"A">>],
          [id |-> Absent, type |-> Absent, name |-> <<"B">>]>>)
     @@ (<<"location", "s">> :>
        <<[id |-> Absent, type |-> Absent, name |-> <<"L">>]>>),
   relationships |->
     <<[sourceType |-> Undefined, sourceIdx |-> 0,
        targetType |-> Undefined, targetIdx |-> 1, type |-> <<"ally">>]>>,
   chapters |->
     <<[title |-> <<"One">>, content |-> <<"x">>],
       [title |-> <<"Two">>, content |-> Null]>>]

InGenerated == {GenEmpty, GenCast}

\* Continuation options of the continue endpoint
ContPlain ==
  [title |-> <<"k">>,
   continuation |->
     [chapterContent |-> <<"y">>, synopsis |-> Absent, newElements |-> <<>>,
      updatedElements |-> <<>>, newRelationships |-> <<>>]]

ContRich ==
  [title |-> <<"r">>,
   continuation |->
     [chapterContent |-> <<"z">>, synopsis |-> <<"syn2">>,
      newElements |->
        (<<"character", "s">> :>
           <<[id |-> Absent, type |-> Absent, name |-> <<"N">>]>>),
      updatedElements |->
        <<[type |-> <<"character">>, id |-> generatedId(<<"character">>, 0),
           updates |-> [name |-> <<"A2">>]]>>,
      newRelationships |->
        <<[source |-> <<"N">>, target |-> <<"B">>, type |-> <<"ally">>],
          [source |-> <<"N">>, target |-> <<"ghost">>, type |-> <<"ally">>]>>]]

\* A payload whose second relationship proposal resolves but has a type that
\* is not in RELATIONSHIP_TYPES, after a proposal that does not resolve and an
\* update of an id that is in no bucket
ContBadRel ==
  [title |-> <<"b">>,
   continuation |->
     [chapterContent |-> <<"w">>, synopsis |-> Absent,
      newElements |->
        (<<"character", "s">> :>
           <<[id |-> Absent, type |-> Absent, name |-> <<"M">>]>>),
      updatedElements |->
        <<[type |-> <<"character">>, id |-> <<"#", "none">>,
           updates |-> [name |-> <<"Z">>]]>>,
      newRelationships |->
        <<[source |-> <<"M">>, target |-> <<"ghost">>, type |-> <<"ally">>],
          [source |-> <<"M">>, target |-> <<"M">>, type |-> <<"bogus">>]>>]]

\* A payload whose updatedElements entry names an unknown element type
ContBadType ==
  [title |-> <<"u">>,
   continuation |->
     [chapterContent |-> <<"v">>, synopsis |-> Absent,
      newElements |->
        (<<"character", "s">> :>
           <<[id |-> Absent, type |-> Absent, name |-> <<"M">>]>>),
      updatedElements |->
        <<[type |-> <<"wizard">>, id |-> <<"#", "none">>,
           updates |-> [name |-> <<"Z">>]]>>,
      newRelationships |-> <<>>]]

InContinuations == {ContPlain, ContRich, ContBadRel, ContBadType}

InTitles == {<<>>, <<"Ch">>}

InChapterUpdates == {[title |-> <<"U">>], [content |-> <<"c">>]}

InSummaries == {<<"v">>}

InFieldUpdates == {[synopsis |-> <<"s1">>], [synopsis |-> <<"s2">>]}

AllElements(s) ==
  UNION {SeqRange(s.elements[k]) : k \in DOMAIN s.elements}

ElementIds(s) == {e.id : e \in AllElements(s)}

InElementIds(s) == ElementIds(s) \cup {<<"#", "none">>}

InEndpoints(s) == ElementIds(s) \cup {Undefined}

(***************************************************************************)
(* Initial states: the provider holds a story made by createNew or by      *)
(* generateFromIdea (transformGeneratedStory).                             *)
(***************************************************************************)
InitWith(s, n) ==
  /\ clock = 0
  /\ story = s
  /\ nextId = n
  /\ error = Null
  /\ loading = FALSE
  /\ timers = IF s = NoStory THEN {}
              ELSE {[due |-> AUTOSAVE_DELAY, snap |-> s]}
  /\ inflight = {}
  /\ storage = NoStory
  /\ lastChange = 0
  /\ saveCount = 0
  /\ isGenerating = FALSE
  /\ continuationOptions = NoOptions
  /\ rows = {}
  /\ deletion = NoDeletion
  /\ steps = 0
  /\ made = <<>>
  /\ prev = NoStory

InitStory ==
  /\ clock = 0
  /\ \/ /\ InitWith(createStory(<<"T">>, 0), 2)
        /\ origin = "createStory"
        /\ last = [op |-> "createNew", threw |-> FALSE]
     \/ \E g \in InGenerated :
          /\ InitWith(transformGeneratedStory(g, 0), idsOfTransform(g))
          /\ origin = "transformGeneratedStory"
          /\ last = [op |-> "generateFromIdea", threw |-> FALSE]

(***************************************************************************)
(* Element and relationship operations                                     *)
(***************************************************************************)
FrameCall ==
  /\ steps' = steps + 1
  /\ prev' = story
  /\ UNCHANGED <<clock, inflight, storage, saveCount, budget, origin,
                 isGenerating, rows, configured, deletion>>

FrameOp == FrameCall /\ UNCHANGED continuationOptions

Frame == FrameOp /\ UNCHANGED made

\* A controller function called directly: the caller keeps the result
Direct == UNCHANGED <<error, loading, timers, lastChange>>

\* ElementController.create(story, type, data)
EC_createStep ==
  /\ steps < budget
  /\ story # NoStory
  /\ \E type \in InTypes, data \in InData :
       LET r == EC_create(story, type, data, nextId)
       IN /\ story' = r.story
          /\ last' = [op |-> "EC.create", type |-> type, data |-> data,
                      errors |-> r.errors, element |-> r.element,
                      input |-> r.input, threw |-> FALSE]
  /\ nextId' = nextId + 1
  /\ Direct
  /\ Frame

\* ElementController.remove(story, id)
EC_removeStep ==
  /\ steps < budget
  /\ story # NoStory
  /\ \E id \in InElementIds(story) :
       LET r == EC_remove(story, id)
       IN /\ story' = r.story
          /\ last' = [op |-> "EC.remove", id |-> id, errors |-> r.errors,
                      deleted |-> r.deleted, input |-> r.input, threw |-> FALSE]
  /\ UNCHANGED nextId
  /\ Direct
  /\ Frame

\* RelationshipController.create(story, data)
RC_createStep ==
  /\ steps < budget
  /\ story # NoStory
  /\ \E sourceId \in InEndpoints(story), targetId \in InEndpoints(story),
        type \in InRelTypes :
       LET data == [sourceId |-> sourceId, targetId |-> targetId, type |-> type]
           r == RC_create(story, data, nextId)
       IN /\ story' = r.story
          /\ last' = [op |-> "RC.create", data |-> data, errors |-> r.errors,
                      relationship |-> r.relationship, input |-> r.input,
                      threw |-> r.threw]
  /\ nextId' = nextId + 1
  /\ Direct
  /\ Frame

\* RelationshipController.swapDirection(story, id)
RC_swapDirectionStep ==
  /\ steps < budget
  /\ story # NoStory
  /\ \E id \in {r.id : r \in SeqRange(story.relationships)} \cup {<<"#", "none">>} :
       LET r == RC_swapDirection(story, id)
       IN /\ story' = r.story
          /\ last' = [op |-> "RC.swapDirection", id |-> id, errors |-> r.errors,
                      relationship |-> r.relationship, input |-> r.input,
                      threw |-> FALSE]
  /\ UNCHANGED nextId
  /\ Direct
  /\ Frame

\* createElement(elementType, elementData) of the StoryProvider
Ctx_createElement ==
  /\ steps < budget
  /\ story # NoStory
  /\ \E type \in InTypes, data \in InData :
       LET updated == addElement(story, type, data, nextId)
       IN /\ IF updated = Threw THEN NoDispatch ELSE SET_STORY(updated)
          /\ last' = [op |-> "createElement", type |-> type, data |-> data,
                      threw |-> (updated = Threw)]
  /\ nextId' = nextId + 1
  /\ Frame

\* deleteElement(elementType, elementId) of the StoryProvider
Ctx_deleteElement ==
  /\ steps < budget
  /\ story # NoStory
  /\ \E type \in InTypes, id \in InElementIds(story) :
       LET updated == removeElement(story, type, id)
       IN /\ IF updated = Threw THEN NoDispatch ELSE SET_STORY(updated)
          /\ last' = [op |-> "deleteElement", type |-> type, id |-> id,
                      threw |-> (updated = Threw)]
  /\ UNCHANGED nextId
  /\ Frame

\* createRelationship(relationshipData) of the StoryProvider
Ctx_createRelationship ==
  /\ steps < budget
  /\ story # NoStory
  /\ \E sourceId \in InEndpoints(story), targetId \in InEndpoints(story),
        type \in InRelTypes :
       LET updated == addRelationship(story, sourceId, targetId, type, nextId)
       IN /\ IF updated = Threw THEN NoDispatch ELSE SET_STORY(updated)
          /\ last' = [op |-> "createRelationship", sourceId |-> sourceId,
                      targetId |-> targetId, type |-> type,
                      threw |-> (updated = Threw)]
  /\ nextId' = nextId + 1
  /\ Frame

\* deleteRelationship(relationshipId) of the StoryProvider
Ctx_deleteRelationship ==
  /\ steps < budget
  /\ story # NoStory
  /\ \E i \in 1..Len(story.relationships) :
       /\ SET_STORY(removeRelationship(story, story.relationships[i].id))
       /\ last' = [op |-> "deleteRelationship",
                   id |-> story.relationships[i].id, threw |-> FALSE]
  /\ UNCHANGED nextId
  /\ Frame

InitElements == InitStory /\ configured = FALSE /\ budget = MaxElementSteps

NextElements ==
  \/ EC_createStep
  \/ EC_removeStep
  \/ RC_createStep
  \/ RC_swapDirectionStep
  \/ Ctx_createElement
  \/ Ctx_deleteElement
  \/ Ctx_createRelationship
  \/ Ctx_deleteRelationship

SpecElements == InitElements /\ [][NextElements]_vars

(***************************************************************************)
(* Chapter and version operations                                          *)
(***************************************************************************)
\* addChapter(chapterData) of the StoryProvider
Ctx_addChapter ==
  /\ steps < budget
  /\ story # NoStory
  /\ \E title \in InTitles :
       /\ SET_STORY(addChapter(story, title, nextId))
       /\ last' = [op |-> "addChapter", title |-> title, threw |-> FALSE]
  /\ nextId' = nextId + 1
  /\ Frame

\* updateChapter(chapterIndex, updates) of the StoryProvider
Ctx_updateChapter ==
  /\ steps < budget
  /\ story # NoStory
  /\ \E chapterIndex \in 0..Len(story.chapters), updates \in InChapterUpdates :
       /\ SET_STORY(updateChapter(story, chapterIndex, updates))
       /\ last' = [op |-> "updateChapter", chapterIndex |-> chapterIndex,
                   updates |-> updates, threw |-> FALSE]
  /\ UNCHANGED nextId
  /\ Frame

\* deleteChapter(chapterIndex) of the StoryProvider
Ctx_deleteChapter ==
  /\ steps < budget
  /\ story # NoStory
  /\ \E chapterIndex \in (-1)..Len(story.chapters) :
       LET updated == removeChapter(story, chapterIndex)
       IN /\ IF updated = Threw
             THEN SET_ERROR(<<"Cannot delete the only chapter">>)
             ELSE SET_STORY(updated)
          /\ last' = [op |-> "deleteChapter", chapterIndex |-> chapterIndex,
                      threw |-> (updated = Threw)]
  /\ UNCHANGED nextId
  /\ Frame

\* setCurrentChapter(index) of the StoryProvider, as the chapter list of the
\* editor calls it: with the index of a listed chapter
Ctx_setCurrentChapter ==
  /\ steps < budget
  /\ story # NoStory
  /\ \E index \in 0..(Len(story.chapters) - 1) :
       /\ index # story.currentChapterIndex
       /\ UPDATE_STORY([currentChapterIndex |-> index])
       /\ last' = [op |-> "setCurrentChapter", index |-> index, threw |-> FALSE]
  /\ UNCHANGED nextId
  /\ Frame

\* createVersion(summary) of the StoryProvider
Ctx_createVersion ==
  /\ steps < budget
  /\ story # NoStory
  /\ \E summary \in InSummaries :
       /\ SET_STORY(createVersion(story, summary, nextId))
       /\ made' = Append(made, createVersionSnapshot(story, summary, nextId))
       /\ last' = [op |-> "createVersion", summary |-> summary, threw |-> FALSE]
  /\ nextId' = nextId + 1
  /\ FrameOp

\* applyContinuation(continuation, chapterIndex) of the StoryProvider
Ctx_applyContinuation ==
  /\ steps < budget
  /\ story # NoStory
  /\ \E continuation \in InContinuations, chapterIndex \in 0..Len(story.chapters) :
       LET r == applyContinuation(story, continuation, chapterIndex, nextId)
       IN /\ IF r.s = Threw THEN NoDispatch ELSE SET_STORY(r.s)
          /\ continuationOptions' =
               IF r.s = Threw THEN continuationOptions
               ELSE CLEAR_CONTINUATION_OPTIONS
          /\ made' = IF r.s = Threw THEN made
                     ELSE Append(made,
                                 createVersionSnapshot(
                                   story, snapshotSummary(continuation.title),
                                   nextId))
          /\ nextId' = r.n
          /\ last' = [op |-> "applyContinuation", continuation |-> continuation,
                      chapterIndex |-> chapterIndex, threw |-> (r.s = Threw)]
  /\ FrameCall

InitChapters == InitStory /\ configured = FALSE /\ budget = MaxChapterSteps

NextChapters ==
  \/ Ctx_addChapter
  \/ Ctx_updateChapter
  \/ Ctx_deleteChapter
  \/ Ctx_setCurrentChapter
  \/ Ctx_applyContinuation

SpecChapters == InitChapters /\ [][NextChapters]_vars

InitVersions == InitStory /\ configured = FALSE /\ budget = MaxVersionSteps

NextVersions ==
  \/ Ctx_createVersion
  \/ Ctx_applyContinuation

SpecVersions == InitVersions /\ [][NextVersions]_vars

(***************************************************************************)
(* The provider over time: mount, edits, the autosave timer, saves.        *)
(* The list of stories (SET_STORIES) is not part of the state.             *)
(***************************************************************************)
\* The provider after its first render: no story, loading, loadStories called
InitMount ==
  /\ clock = 0
  /\ story = NoStory
  /\ loading = TRUE
  /\ error = Null
  /\ timers = {}
  /\ inflight = {[kind |-> "loadStories"]}
  /\ configured \in BOOLEAN
  /\ deletion = NoDeletion
  /\ storage \in {NoStory, createStory(<<"T">>, 0)}
  /\ nextId = 2
  /\ lastChange = 0
  /\ saveCount = 0
  /\ isGenerating = FALSE
  /\ continuationOptions = NoOptions
  /\ rows = {}
  /\ steps = 0
  /\ budget = MaxUserSteps
  /\ origin = "mount"
  /\ made = <<>>
  /\ prev = NoStory
  /\ last = [op |-> "mount", threw |-> FALSE]

\* A call of the StorageService awaits a network response only with the
\* Supabase backend (configured, for the signed-in user of the provider). With
\* localStorage the promises of loadStories, saveStory and deleteStory are
\* settled already when they are awaited: the handler runs to its end before
\* the next timeout or user event.
LocalCallPending ==
  /\ ~configured
  /\ \E f \in inflight : f.kind \in {"loadStories", "save", "delete"}

FrameTime ==
  UNCHANGED <<budget, origin, made, isGenerating, continuationOptions, rows,
              configured, deletion>>

\* loadStories() resumes after its awaits: the local backend holds one story
LoadStoriesDone ==
  /\ [kind |-> "loadStories"] \in inflight
  /\ inflight' = inflight \ {[kind |-> "loadStories"]}
  /\ IF storage # NoStory THEN SET_STORY(storage) ELSE SET_LOADING(FALSE)
  /\ prev' = story
  /\ last' = [op |-> "loadStories", loaded |-> (storage # NoStory),
              threw |-> FALSE]
  /\ UNCHANGED <<nextId, clock, storage, saveCount, steps>>
  /\ FrameTime

\* createNew(title) of the StoryProvider
Ctx_createNew ==
  /\ steps < budget
  /\ ~LocalCallPending
  /\ SET_STORY(createStory(<<"T">>, nextId))
  /\ nextId' = nextId + 2
  /\ steps' = steps + 1
  /\ prev' = story
  /\ last' = [op |-> "createNew", threw |-> FALSE]
  /\ UNCHANGED <<clock, inflight, storage, saveCount>>
  /\ FrameTime

\* updateStory(updates) of the StoryProvider
Ctx_updateStory ==
  /\ steps < budget
  /\ story # NoStory
  /\ ~LocalCallPending
  /\ \E updates \in InFieldUpdates :
       /\ UPDATE_STORY(updateFields(story, updates).story)
       /\ last' = [op |-> "updateStory", updates |-> updates, threw |-> FALSE]
  /\ steps' = steps + 1
  /\ prev' = story
  /\ UNCHANGED <<nextId, clock, inflight, storage, saveCount>>
  /\ FrameTime

\* Time passes
Tick ==
  /\ clock + TickMs <= MaxClock
  /\ ~LocalCallPending
  /\ clock' = clock + TickMs
  /\ UNCHANGED <<story, error, loading, nextId, timers, inflight, storage,
                 lastChange, saveCount, steps, prev, last>>
  /\ FrameTime

\* The autosave timeout runs saveStory() of the render that set it:
\* storyController.save(state.story) is called and awaited
AutosaveFires ==
  /\ ~LocalCallPending
  /\ \E t \in timers :
       /\ clock >= t.due
       /\ timers' = timers \ {t}
       /\ inflight' = inflight \cup
            {[kind |-> "save", snap |-> savedCopy(t.snap), stored |-> FALSE]}
       /\ last' = [op |-> "autosave", snap |-> t.snap, at |-> clock,
                   lastChange |-> lastChange, threw |-> FALSE]
  /\ saveCount' = saveCount + 1
  /\ prev' = story
  /\ UNCHANGED <<story, error, loading, nextId, clock, storage, lastChange, steps>>
  /\ FrameTime

\* StorageService.saveStory writes the copy
SaveLands ==
  /\ \E f \in inflight :
       /\ f.kind = "save"
       /\ ~f.stored
       /\ storage' = f.snap
       /\ inflight' = (inflight \ {f}) \cup {[f EXCEPT !.stored = TRUE]}
  /\ UNCHANGED <<story, error, loading, nextId, clock, timers, lastChange,
                 saveCount, steps, prev, last>>
  /\ FrameTime

\* saveStory() resumes: dispatch UPDATE_STORY with the saved copy
SaveDone ==
  /\ \E f \in inflight :
       /\ f.kind = "save"
       /\ f.stored
       /\ inflight' = inflight \ {f}
       /\ UPDATE_STORY(f.snap)
       /\ last' = [op |-> "saveDone", snap |-> f.snap, threw |-> FALSE]
  /\ prev' = story
  /\ UNCHANGED <<nextId, clock, storage, saveCount, steps>>
  /\ FrameTime

\* deleteStory(storyId) of the StoryProvider with the id of the resident
\* story, once in a run. With localStorage the handler runs to its end: the
\* key is removed, listStories finds nothing and SET_STORY null is
\* dispatched. With Supabase it stops at the await of the delete request.
Ctx_deleteStory ==
  /\ steps < budget
  /\ story # NoStory
  /\ deletion = NoDeletion
  /\ ~LocalCallPending
  /\ IF configured
     THEN /\ inflight' = inflight \cup
               {[kind |-> "delete", id |-> story.id, removed |-> FALSE]}
          /\ deletion' = [id |-> story.id, steps |-> steps + 1, done |-> FALSE]
          /\ NoDispatch
          /\ UNCHANGED storage
     ELSE /\ storage' = NoStory
          /\ SET_STORY(NoStory)
          /\ deletion' = [id |-> story.id, steps |-> steps + 1, done |-> TRUE]
          /\ UNCHANGED inflight
  /\ last' = [op |-> "deleteStory", id |-> story.id, threw |-> FALSE]
  /\ steps' = steps + 1
  /\ prev' = story
  /\ UNCHANGED <<nextId, clock, saveCount, budget, origin, made, isGenerating,
                 continuationOptions, rows, configured>>

\* _deleteFromSupabase(storyId, userId): the delete request is carried out
DeleteLands ==
  /\ \E f \in inflight :
       /\ f.kind = "delete"
       /\ ~f.removed
       /\ storage' = IF storage # NoStory /\ storage.id = f.id
                     THEN NoStory ELSE storage
       /\ inflight' = (inflight \ {f}) \cup {[f EXCEPT !.removed = TRUE]}
  /\ UNCHANGED <<story, error, loading, nextId, clock, timers, lastChange,
                 saveCount, steps, prev, last, deletion>>
  /\ UNCHANGED <<budget, origin, made, isGenerating, continuationOptions, rows,
                 configured>>

\* deleteStory resumes after its awaits: loadAll lists what the backend holds
\* now; the deleted story was the resident one, so the first listed story is
\* loaded and dispatched with SET_STORY, or null when nothing is listed
DeleteDone ==
  /\ \E f \in inflight :
       /\ f.kind = "delete"
       /\ f.removed
       /\ inflight' = inflight \ {f}
       /\ SET_STORY(storage)
       /\ last' = [op |-> "deleteDone", id |-> f.id, threw |-> FALSE]
  /\ deletion' = [deletion EXCEPT !.done = TRUE]
  /\ prev' = story
  /\ UNCHANGED <<nextId, clock, storage, saveCount, steps>>
  /\ UNCHANGED <<budget, origin, made, isGenerating, continuationOptions, rows,
                 configured>>

NextAutosave ==
  \/ LoadStoriesDone
  \/ Ctx_createNew
  \/ Ctx_updateStory
  \/ Tick
  \/ AutosaveFires
  \/ SaveLands
  \/ SaveDone
  \/ Ctx_deleteStory
  \/ DeleteLands
  \/ DeleteDone

SpecAutosave == InitMount /\ [][NextAutosave]_vars

\* The autosave under the scheduling of the browser: time passes, a due
\* timeout runs, a started storage call completes and an awaiting handler
\* resumes. The user is free to act or not.
SpecAutosaveFair ==
  /\ SpecAutosave
  /\ WF_vars(LoadStoriesDone)
  /\ WF_vars(Tick)
  /\ WF_vars(AutosaveFires)
  /\ WF_vars(SaveLands)
  /\ WF_vars(SaveDone)
  /\ WF_vars(DeleteLands)
  /\ WF_vars(DeleteDone)

(***************************************************************************)
(* Generation: the provider's generateFromIdea and generateContinuations,  *)
(* StoryController's and AIService's functions of the same names, and the  *)
(* generate endpoint.                                                      *)
(***************************************************************************)
\* An argument received where an options object is expected: either an
\* object or another value (a string, undefined)
JsObject(o) == [object |-> o]
JsValue(v) == [value |-> v]

\* options.key: a string has none of the keys, an object the ones it holds
getProperty(options, key) ==
  IF "object" \in DOMAIN options
  THEN IF key \in DOMAIN options.object THEN options.object[key] ELSE Undefined
  ELSE Undefined

\* const {title, idea, genre = '', tone = ''} = options throws a TypeError
\* when options is undefined or null
TypeErrorMessage == <<"TypeError">>

canDestructure(options) ==
  "object" \in DOMAIN options \/ options.value \notin {Undefined, Null}

withDefault(v, d) == IF v = Undefined THEN d ELSE v

\* AIService.generateFromIdea(options) up to the fetch: the call throws
\* before the request, or sends the body JSON.stringify makes
AI_generateFromIdea(options) ==
  IF ~canDestructure(options)
  THEN [threw |-> TRUE, message |-> TypeErrorMessage]
  ELSE LET title == getProperty(options, "title")
           idea == getProperty(options, "idea")
           genre == withDefault(getProperty(options, "genre"), <<>>)
           tone == withDefault(getProperty(options, "tone"), <<>>)
       IN [threw |-> FALSE,
           body |-> [title |-> jsonValue(title), idea |-> jsonValue(idea),
                     genre |-> jsonValue(genre), tone |-> jsonValue(tone)]]

\* StoryController.generateFromIdea(title, idea, genre = '') up to the await:
\* AIService.generateFromIdea(title, idea, genre) receives title as options
SC_generateFromIdea(title, idea, genre) ==
  AI_generateFromIdea(JsValue(title))

\* handler(req, res) of api/generate for a body without regenerate: the
\* status when the model call succeeds
generateHandler(body) ==
  IF Falsy(body.title) \/ Falsy(body.idea) THEN 400 ELSE 200

ApiError(status) ==
  <<"API error: ", IF status = 400 THEN "400" ELSE "500">>

FailedToFetch == <<"Failed to fetch">>

\* What the awaited AIService call can come to: a rejection with a message or
\* a response body
GenerateOutcomes(call) ==
  IF call.threw THEN {[ok |-> FALSE, message |-> call.message]}
  ELSE {[ok |-> FALSE, message |-> FailedToFetch],
        [ok |-> FALSE, message |-> ApiError(500)]}
       \cup (IF generateHandler(call.body) = 400
             THEN {[ok |-> FALSE, message |-> ApiError(400)]}
             ELSE {[ok |-> TRUE, generated |-> g] : g \in InGenerated})

ContinueOutcomes ==
  {[ok |-> FALSE, message |-> FailedToFetch],
   [ok |-> FALSE, message |-> ApiError(500)],
   [ok |-> TRUE, options |-> <<ContPlain, ContRich, ContBadRel>>]}

\* What the user enters in the generator form
InParams ==
  [title : {<<"T">>, Undefined}, idea : {<<"I">>, <<>>},
   genre : {<<"g">>, Undefined}]

InModes == {<<"auto">>}

MaxGenerateSteps == 3   \* user operations per run of SpecGenerate

InitGenerate ==
  /\ budget = MaxGenerateSteps
  /\ configured = FALSE
  /\ \/ InitStory
     \/ /\ InitWith(NoStory, 0)
        /\ origin = "mount"
        /\ last = [op |-> "mount", threw |-> FALSE]

\* generateFromIdea(params) of the StoryProvider up to its await
Ctx_generateFromIdea ==
  /\ steps < budget
  /\ \E params \in InParams :
       LET call == SC_generateFromIdea(params.title, params.idea, params.genre)
       IN /\ inflight' = inflight \cup {[kind |-> "generate", call |-> call]}
          /\ last' = [op |-> "generateFromIdea.called", params |-> params,
                      call |-> call, threw |-> FALSE]
  /\ isGenerating' = TRUE
  /\ NoDispatch
  /\ steps' = steps + 1
  /\ prev' = story
  /\ UNCHANGED <<rows, configured, deletion, nextId, clock, storage, saveCount, budget, origin, made,
                 continuationOptions>>

\* generateFromIdea resumes after its await: try, catch and finally
GenerateSettles ==
  /\ \E f \in inflight :
       /\ f.kind = "generate"
       /\ inflight' = inflight \ {f}
       /\ \E outcome \in GenerateOutcomes(f.call) :
            LET made0 == IF outcome.ok
                         THEN transformGeneratedStory(outcome.generated, nextId)
                         ELSE Threw
            IN IF outcome.ok /\ made0 # Threw
               THEN /\ SET_STORY(made0)
                    /\ nextId' = nextId + idsOfTransform(outcome.generated)
                    /\ last' = [op |-> "generateFromIdea.settled",
                                failed |-> FALSE, message |-> Null,
                                threw |-> FALSE]
               ELSE /\ SET_ERROR(
                          IF outcome.ok THEN <<"Invalid relationship type">>
                          ELSE outcome.message)
                    /\ nextId' = nextId
                    /\ last' = [op |-> "generateFromIdea.settled",
                                failed |-> TRUE,
                                message |-> IF outcome.ok
                                            THEN <<"Invalid relationship type">>
                                            ELSE outcome.message,
                                threw |-> FALSE]
  /\ isGenerating' = FALSE
  /\ prev' = story
  /\ UNCHANGED <<rows, configured, deletion, clock, storage, saveCount, steps, budget, origin, made,
                 continuationOptions>>

\* generateContinuations(mode, userPrompt) of the StoryProvider up to its
\* await; without a story the handler returns at once
Ctx_generateContinuations ==
  /\ steps < budget
  /\ story # NoStory
  /\ \E mode \in InModes :
       /\ inflight' = inflight \cup {[kind |-> "continue", mode |-> mode]}
       /\ last' = [op |-> "generateContinuations.called", mode |-> mode,
                   threw |-> FALSE]
  /\ isGenerating' = TRUE
  /\ NoDispatch
  /\ steps' = steps + 1
  /\ prev' = story
  /\ UNCHANGED <<rows, configured, deletion, nextId, clock, storage, saveCount, budget, origin, made,
                 continuationOptions>>

\* generateContinuations resumes after its await: SET_CONTINUATION_OPTIONS,
\* or the catch block, which dispatches and throws again
ContinuationsSettle ==
  /\ \E f \in inflight :
       /\ f.kind = "continue"
       /\ inflight' = inflight \ {f}
       /\ \E outcome \in ContinueOutcomes :
            IF outcome.ok
            THEN /\ continuationOptions' = [options |-> outcome.options]
                 /\ NoDispatch
                 /\ last' = [op |-> "generateContinuations.settled",
                             failed |-> FALSE, message |-> Null,
                             threw |-> FALSE]
            ELSE /\ SET_ERROR(outcome.message)
                 /\ UNCHANGED continuationOptions
                 /\ last' = [op |-> "generateContinuations.settled",
                             failed |-> TRUE, message |-> outcome.message,
                             threw |-> TRUE]
  /\ isGenerating' = FALSE
  /\ prev' = story
  /\ UNCHANGED <<rows, configured, deletion, nextId, clock, storage, saveCount, steps, budget, origin,
                 made>>

\* clearContinuationOptions() of the StoryProvider
Ctx_clearContinuationOptions ==
  /\ steps < budget
  /\ continuationOptions' = CLEAR_CONTINUATION_OPTIONS
  /\ last' = [op |-> "clearContinuationOptions", threw |-> FALSE]
  /\ NoDispatch
  /\ steps' = steps + 1
  /\ prev' = story
  /\ UNCHANGED <<rows, configured, deletion, nextId, clock, inflight, storage, saveCount, budget, origin,
                 made, isGenerating>>

NextGenerate ==
  \/ Ctx_generateFromIdea
  \/ GenerateSettles
  \/ Ctx_generateContinuations
  \/ ContinuationsSettle
  \/ Ctx_clearContinuationOptions
  \/ Ctx_createNew

SpecGenerate == InitGenerate /\ [][NextGenerate]_vars

(***************************************************************************)
(* Persistence: StoryController.save and load over StorageService and its  *)
(* two backends.                                                           *)
(***************************************************************************)
\* getBackend()
getBackend == IF configured THEN "supabase" ELSE "local"

\* _saveToLocal(story): what localStorage holds afterwards
saveToLocal(s) == jsonStory(s)

\* _saveToSupabase(story, userId): the table after the upsert on id
saveToSupabase(s, userId, now) ==
  {r \in rows : r.id # s.id}
    \cup {[id |-> s.id, user_id |-> userId, content |-> jsonStory(s),
           updated_at |-> now]}

\* _loadFromSupabase(userId): the content of a row of that user with the
\* latest updated_at; NoStory (null) when the user has no row
loadFromSupabase(userId) ==
  LET mine == {r \in rows : r.user_id = userId}
      latest == {r \in mine : \A q \in mine : q.updated_at <= r.updated_at}
  IN IF mine = {} THEN {NoStory} ELSE {r.content : r \in latest}

\* StorageService.loadStory(userId = null): the stories it can return
loadStory(userId) ==
  IF getBackend = "supabase" /\ ~Falsy(userId)
  THEN loadFromSupabase(userId)
  ELSE {storage}

\* StoryController.load(storyId, userId = null):
\* StorageService.loadStory(storyId, userId)
SC_load(storyId, userId) == loadStory(storyId)

InUserIds == {Null, <<"u1">>}

MaxStorageSteps == 3    \* operations per run of SpecStorage

InitStorage ==
  /\ InitStory
  /\ configured \in BOOLEAN
  /\ budget = MaxStorageSteps

\* StoryController.save(story, userId) with the resident story, some time
\* after the previous operation; the backend stores the copy or fails
SC_saveStep ==
  /\ steps < budget
  /\ story # NoStory
  /\ \E userId \in InUserIds, stored \in BOOLEAN, elapsed \in {0, TickMs} :
       /\ clock' = clock + elapsed
       /\ LET updatedStory == [story EXCEPT !.updatedAt = clock']
              remote == getBackend = "supabase" /\ ~Falsy(userId)
          IN /\ rows' = IF stored /\ remote
                        THEN saveToSupabase(updatedStory, userId, clock')
                        ELSE rows
             /\ storage' = IF stored /\ ~remote THEN saveToLocal(updatedStory)
                           ELSE storage
             /\ last' = [op |-> "SC.save", story |-> updatedStory,
                         userId |-> userId, stored |-> stored,
                         threw |-> FALSE]
  /\ steps' = steps + 1
  /\ prev' = story
  /\ NoDispatch
  /\ UNCHANGED <<nextId, inflight, saveCount, configured, deletion>>
  /\ UNCHANGED <<budget, origin, made, isGenerating, continuationOptions>>

\* StoryController.load(storyId, userId)
SC_loadStep ==
  /\ steps < budget
  /\ story # NoStory
  /\ \E storyId \in {story.id, <<"#", "none">>}, userId \in InUserIds :
       \E result \in SC_load(storyId, userId) :
         last' = [op |-> "SC.load", storyId |-> storyId, userId |-> userId,
                  result |-> result,
                  after |-> IF last.op = "SC.save" THEN last
                            ELSE [op |-> "other"],
                  threw |-> FALSE]
  /\ steps' = steps + 1
  /\ prev' = story
  /\ NoDispatch
  /\ UNCHANGED <<nextId, inflight, saveCount, configured, deletion, clock, rows,
                 storage>>
  /\ UNCHANGED <<budget, origin, made, isGenerating, continuationOptions>>

NextStorage ==
  \/ SC_saveStep
  \/ SC_loadStep
  \/ Ctx_createNew

SpecStorage == InitStorage /\ [][NextStorage]_vars

(***************************************************************************)
(* Element updates: ElementController.update and the provider's            *)
(* createElement and updateElement.                                        *)
(***************************************************************************)
InUpdates == {[name |-> <<"A2">>], [name |-> <<>>]}

MaxUpdateSteps == 2     \* operations per run of SpecUpdates

\* ElementController.update(story, id, updates)
EC_updateStep ==
  /\ steps < budget
  /\ story # NoStory
  /\ \E id \in InElementIds(story), updates \in InUpdates :
       LET r == EC_update(story, id, updates)
       IN /\ story' = r.story
          /\ last' = [op |-> "EC.update", id |-> id, updates |-> updates,
                      errors |-> r.errors, element |-> r.element,
                      input |-> r.input, threw |-> FALSE]
  /\ UNCHANGED nextId
  /\ Direct
  /\ Frame

\* updateElement(elementType, elementId, updates) of the StoryProvider
Ctx_updateElement ==
  /\ steps < budget
  /\ story # NoStory
  /\ \E type \in InTypes, id \in InElementIds(story), updates \in InUpdates :
       LET updated == updateElement(story, type, id, updates)
       IN /\ IF updated = Threw THEN NoDispatch ELSE SET_STORY(updated)
          /\ last' = [op |-> "updateElement", type |-> type, id |-> id,
                      updates |-> updates, threw |-> (updated = Threw)]
  /\ UNCHANGED nextId
  /\ Frame

InitUpdates == InitStory /\ configured = FALSE /\ budget = MaxUpdateSteps

NextUpdates ==
  \/ EC_updateStep
  \/ Ctx_updateElement
  \/ Ctx_createElement

SpecUpdates == InitUpdates /\ [][NextUpdates]_vars

\* AIService.compileStoryState(story): the elements, read from
\* story.elements[type] for each key of ELEMENT_TYPES and abbreviated, the
\* synopsis and the current chapter
compileStoryState(s) ==
  [elements |->
     [type \in ELEMENT_TYPES |->
        LET list == IF type \in DOMAIN s.elements THEN s.elements[type]
                    ELSE <<>>
        IN [i \in 1..Len(list) |->
              [id |-> list[i].id, name |-> list[i].name,
               type |-> list[i].type]]],
   synopsis |-> OrElse(s.synopsis, <<>>),
   currentChapterIdx |-> s.currentChapterIndex]

(***************************************************************************)
(* Functions called with arguments of the caller's choice                  *)
(***************************************************************************)
\* Payloads of the generate endpoint with the cast of GenCast and one
\* relationship between two positions of its lists
InListNames == {Undefined, <<"character", "s">>, <<"location", "s">>}

MaxIdx == 2             \* the largest position a generated relationship names

InGeneratedRelationships ==
  [sourceType : InListNames, sourceIdx : 0..MaxIdx,
   targetType : InListNames, targetIdx : 0..MaxIdx,
   type : {<<"ally">>, <<"enemy">>}]

GenWith(rel) == [GenCast EXCEPT !.relationships = <<rel>>]

MaxFunctionSteps == 1   \* operations per run of SpecFunctions

InitFunctions == InitStory /\ configured = FALSE /\ budget = MaxFunctionSteps

\* AIService.compileStoryState(story) on the resident story
CompileStep ==
  /\ steps < budget
  /\ story # NoStory
  /\ story' = story
  /\ last' = [op |-> "compileStoryState", compiled |-> compileStoryState(story),
              threw |-> FALSE]
  /\ UNCHANGED nextId
  /\ Direct
  /\ Frame

\* ElementController.duplicate(story, id)
EC_duplicateStep ==
  /\ steps < budget
  /\ story # NoStory
  /\ \E id \in InElementIds(story) :
       LET r == EC_duplicate(story, id, nextId)
       IN /\ story' = r.story
          /\ last' = [op |-> "EC.duplicate", id |-> id, errors |-> r.errors,
                      element |-> r.element, input |-> r.input,
                      threw |-> FALSE]
  /\ nextId' = nextId + 1
  /\ Direct
  /\ Frame

\* A payload of the generate endpoint with three characters
GenTrio ==
  [GenCast EXCEPT
     !.elements[<<"character", "s">>] =
        Append(@, [id |-> Absent, type |-> Absent, name |-> <<"C">>])]

InReorderTypes ==
  {<<"character", "s">>, <<"location", "s">>, <<"character">>}

\* ElementController.reorder(story, type, fromIndex, toIndex) on the resident
\* story or on a freshly generated one
EC_reorderStep ==
  /\ steps < budget
  /\ story # NoStory
  /\ \E arg \in {story, transformGeneratedStory(GenTrio, nextId)},
        type \in InReorderTypes,
        fromIndex \in (-1)..(MaxIdx + 1), toIndex \in (-1)..(MaxIdx + 1) :
       LET r == EC_reorder(arg, type, fromIndex, toIndex)
       IN /\ story' = r.story
          /\ last' = [op |-> "EC.reorder", arg |-> arg, type |-> type,
                      fromIndex |-> fromIndex, toIndex |-> toIndex,
                      same |-> r.same, input |-> r.input, threw |-> FALSE]
  /\ nextId' = nextId + idsOfTransform(GenTrio)
  /\ Direct
  /\ Frame

\* A text of n characters
Text(n) == [i \in 1..n |-> "x"]

\* The story with the content of its first chapter replaced
WithContent(s, content) == [s EXCEPT !.chapters[1].content = content]

InGateUpdates ==
  {[title |-> <<"T2">>], [genre |-> <<"g">>], [genre |-> <<"g2">>],
   [genre |-> Null], [synopsis |-> Undefined],
   [tone |-> <<"t2">>, synopsis |-> <<"s9">>, title |-> <<"T2">>]}

\* StoryController.updateFields(story, updates) on the resident story or on
\* the resident story with a first chapter of 100 or of 101 characters
UpdateFieldsStep ==
  /\ steps < budget
  /\ story # NoStory
  /\ \E arg \in {story, WithContent(story, Text(SubstantialLength)),
                 WithContent(story, Text(SubstantialLength + 1))},
        updates \in InGateUpdates :
       LET r == updateFields(arg, updates)
       IN /\ story' = r.story
          /\ last' = [op |-> "updateFields", arg |-> arg, updates |-> updates,
                      shouldPromptRegeneration |-> r.shouldPromptRegeneration,
                      changedFields |-> r.changedFields, threw |-> FALSE]
  /\ UNCHANGED nextId
  /\ Direct
  /\ Frame

\* StoryController.transformGeneratedStory(generated)
TransformStep ==
  /\ steps < budget
  /\ \E rel \in InGeneratedRelationships :
       LET generated == GenWith(rel)
           r == transformGeneratedStory(generated, nextId)
       IN /\ story' = IF r = Threw THEN story ELSE r
          /\ nextId' = nextId + idsOfTransform(generated)
          /\ last' = [op |-> "transformGeneratedStory",
                      generated |-> generated, threw |-> (r = Threw)]
  /\ Direct
  /\ Frame

NextFunctions ==
  \/ TransformStep
  \/ CompileStep
  \/ EC_duplicateStep
  \/ EC_reorderStep
  \/ UpdateFieldsStep

SpecFunctions == InitFunctions /\ [][NextFunctions]_vars

(***************************************************************************)
(* Properties of the element and relationship operations (SpecElements)    *)
(***************************************************************************)
Untouched(rels, id) ==
  Pick(rels, {i \in 1..Len(rels) : rels[i].sourceId # id /\ rels[i].targetId # id})

CascadeDone(id) ==
  /\ EC_getById(story, id) = NotFound
  /\ \A i \in 1..Len(story.relationships) :
       story.relationships[i].sourceId # id /\ story.relationships[i].targetId # id
  /\ story.relationships = Untouched(prev.relationships, id)

\* C1: after ElementController.remove(story, id), and after
\* StoryController.removeElement(story, type, id) with the element's own type,
\* for an id present in the story, the element is found in no bucket, no
\* relationship has id as source or target, and the relationships that do not
\* touch id are all kept.
C1_CascadeDelete ==
  /\ (last.op = "EC.remove" /\ last.id \in ElementIds(prev))
       => CascadeDone(last.id)
  /\ (/\ last.op = "deleteElement"
      /\ \E e \in AllElements(prev) : e.id = last.id /\ e.type = last.type)
       => (~last.threw /\ CascadeDone(last.id))

NoSelfRelationship(rels) ==
  \A i \in 1..Len(rels) : rels[i].sourceId # rels[i].targetId

NoDuplicatePair(rels) ==
  \A i, j \in 1..Len(rels) :
    i # j => {rels[i].sourceId, rels[i].targetId}
               # {rels[j].sourceId, rels[j].targetId}

\* C2: in every story reached from createStory by the relationship-adding
\* operations no stored relationship has sourceId = targetId and no two stored
\* relationships connect the same unordered pair.
C2_RelationshipInvariant ==
  (origin = "createStory" /\ story # NoStory)
    => (NoSelfRelationship(story.relationships)
        /\ NoDuplicatePair(story.relationships))

CreateFrame ==
  /\ last.errors = {}
  /\ EC_getStats(story)[last.type] = EC_getStats(prev)[last.type] + 1
  /\ DOMAIN story.elements \ {last.type} = DOMAIN prev.elements \ {last.type}
  /\ \A k \in DOMAIN prev.elements \ {last.type} :
       story.elements[k] = prev.elements[k]
  /\ story.relationships = prev.relationships
  /\ story.chapters = prev.chapters
  /\ last.input = prev

\* C8 as stated: for every valid type T and data with a non-empty name,
\* ElementController.create returns empty errors and a story with one more
\* element of type T, every other bucket, the relationships and the chapters
\* unchanged, and the input story is not modified.
C8_CreateFrameNonEmptyName ==
  (/\ last.op = "EC.create"
   /\ last.type \in ELEMENT_TYPES
   /\ ~Falsy(last.data.name))
    => CreateFrame

\* C8: the same frame, for every valid type T and data whose name is
\* non-empty after trimming white space.
C8_CreateFrame ==
  (/\ last.op = "EC.create"
   /\ last.type \in ELEMENT_TYPES
   /\ ~Falsy(last.data.name)
   /\ trim(last.data.name) # <<>>)
    => CreateFrame

C8_Witness ==
  /\ last.op = "EC.create"
  /\ last.type = <<"location">>
  /\ trim(last.data.name) # <<>>
  /\ last.errors = {}
  /\ Len(prev.relationships) > 0
  /\ Len(prev.elements[<<"character", "s">>]) > 0
  /\ EC_getStats(story)[<<"location">>] = 1

AlreadyExists == <<"Relationship already exists">>

Rejected(a, b, t) ==
  /\ RC_canCreate(story, a, b, t) = AlreadyExists
  /\ LET r == RC_create(story, [sourceId |-> a, targetId |-> b, type |-> t],
                        nextId)
     IN /\ r.story = story
        /\ r.input = story
        /\ r.relationship = Null
        /\ ~r.threw
        /\ r.errors = {<<"general", AlreadyExists>>}

\* C9: whenever the story holds a relationship between two elements A and B,
\* in either direction, canCreate(story, A, B, t) and canCreate(story, B, A, t)
\* are both rejected with "Relationship already exists" for every type t,
\* known or unknown, and RelationshipController.create returns the input
\* story unchanged.
C9_CanCreateSymmetric ==
  story # NoStory =>
    \A i \in 1..Len(story.relationships), t \in InRelTypes :
      LET a == story.relationships[i].sourceId
          b == story.relationships[i].targetId
      IN a # b => (Rejected(a, b, t) /\ Rejected(b, a, t))

C9_Witness ==
  /\ last.op = "RC.create"
  /\ last.data.type = <<"bogus">>
  /\ last.errors = {<<"general", AlreadyExists>>}
  /\ story = prev
  /\ \E i \in 1..Len(story.relationships) :
       /\ story.relationships[i].sourceId = last.data.targetId
       /\ story.relationships[i].targetId = last.data.sourceId
       /\ last.data.sourceId # last.data.targetId

(***************************************************************************)
(* Properties of the chapter and version operations                        *)
(***************************************************************************)
LastOf(seq, k) ==
  IF Len(seq) > k THEN SubSeq(seq, Len(seq) - k + 1, Len(seq)) ELSE seq

\* C3: in every story reached by createVersion and applyContinuation calls
\* the versions list has at most 3 entries and holds the snapshots added most
\* recently (all of them up to 3 calls, the last 3 after more), in insertion
\* order.
C3_VersionCap ==
  story # NoStory =>
    /\ Len(story.versions) <= 3
    /\ story.versions = LastOf(made, 3)

C3_Witness ==
  /\ Len(made) > 3
  /\ Len(story.versions) = 3
  /\ story.versions[1] = made[Len(made) - 2]
  /\ story.versions[3] = made[Len(made)]
  /\ last.op = "createVersion"

OnlyChapterMessage == <<"Cannot delete the only chapter">>

\* C4: every story reached from createStory or transformGeneratedStory by
\* addChapter, removeChapter, updateChapter and applyContinuation has at least
\* one chapter; deleteChapter on a story with exactly one chapter ends with
\* the error state set and the resident story unchanged.
C4_AtLeastOneChapter ==
  story # NoStory =>
    /\ Len(story.chapters) >= 1
    /\ (last.op = "deleteChapter" /\ Len(prev.chapters) = 1)
         => (last.threw /\ error = OnlyChapterMessage /\ story = prev)

C4_Witness ==
  /\ last.op = "deleteChapter"
  /\ last.chapterIndex = 0
  /\ last.threw
  /\ error = OnlyChapterMessage
  /\ Len(story.chapters) = 1
  /\ steps > 1

\* C5: in every story reached by addChapter, removeChapter(i) for any i,
\* updateChapter and applyContinuation, 0 <= currentChapterIndex <
\* chapters.length; removing a chapter of a two-chapter story leaves
\* currentChapterIndex = 0.
C5_CurrentChapterIndexValid ==
  story # NoStory =>
    /\ story.currentChapterIndex \in 0..(Len(story.chapters) - 1)
    /\ (last.op = "deleteChapter" /\ ~last.threw /\ Len(prev.chapters) = 2)
         => story.currentChapterIndex = 0

C5_Witness ==
  /\ origin = "createStory"
  /\ last.op = "deleteChapter"
  /\ ~last.threw
  /\ Len(prev.chapters) = 2
  /\ prev.currentChapterIndex = 1
  /\ Len(story.chapters) = 1
  /\ story.currentChapterIndex = 0

\* The text a chapter holds: a chapter without content holds the empty text
TextOf(content) == IF content \in {Null, Undefined, Absent} THEN <<>> ELSE content

\* C6: for a valid chapterIndex the story applyContinuation returns has a
\* target chapter that holds its previous content followed by "\n\n" followed
\* by the continuation's chapterContent; the title of that chapter, every
\* other chapter and the number of chapters are unchanged.
C6_ContinuationAppends ==
  (/\ last.op = "applyContinuation"
   /\ last.chapterIndex \in 0..(Len(prev.chapters) - 1)
   /\ ~last.threw)
    => /\ Len(story.chapters) = Len(prev.chapters)
       /\ \A i \in 1..Len(prev.chapters) :
            IF i = last.chapterIndex + 1
            THEN /\ story.chapters[i].content =
                      TextOf(prev.chapters[i].content) \o <<"\n\n">>
                        \o last.continuation.continuation.chapterContent
                 /\ story.chapters[i].title = prev.chapters[i].title
                 /\ story.chapters[i].id = prev.chapters[i].id
            ELSE story.chapters[i] = prev.chapters[i]

C6_Witness ==
  /\ last.op = "applyContinuation"
  /\ ~last.threw
  /\ last.chapterIndex = 0
  /\ Len(prev.chapters) = 2
  /\ prev.chapters[1].content = <<"x">>
  /\ story.chapters[1].content = <<"x", "\n\n", "z">>

CountsOf(s) ==
  [characters  |-> Len(s.elements[<<"character", "s">>]),
   antagonists |-> Len(s.elements[<<"antagonist", "s">>]),
   locations   |-> Len(s.elements[<<"location", "s">>]),
   arcs        |-> Len(s.elements[<<"arc", "s">>]),
   themes      |-> Len(s.elements[<<"theme", "s">>])]

\* C7: every applyContinuation call that returns adds exactly one snapshot:
\* it is the newest entry of versions, the entries before it are the newest
\* of the previous list, its summary is "Before: " followed by the
\* continuation's title, and its counts of elements per type, chapters and
\* relationships are those of the story before the call.
C7_PreChangeSnapshot ==
  (last.op = "applyContinuation" /\ ~last.threw)
    => LET n == Len(story.versions)
           snap == story.versions[n]
       IN /\ n = Min(Len(prev.versions) + 1, 3)
          /\ SubSeq(story.versions, 1, n - 1) = LastOf(prev.versions, n - 1)
          /\ \A i \in 1..Len(prev.versions) : prev.versions[i].id # snap.id
          /\ story.currentVersion = prev.currentVersion + 1
          /\ snap.version = prev.currentVersion
          /\ snap.summary = <<"Before: ">> \o last.continuation.title
          /\ snap.snapshotData.elementsCount = CountsOf(prev)
          /\ snap.snapshotData.chaptersCount = Len(prev.chapters)
          /\ snap.snapshotData.relationshipsCount = Len(prev.relationships)

C7_Witness ==
  /\ last.op = "applyContinuation"
  /\ ~last.threw
  /\ last.continuation = ContRich
  /\ Len(story.relationships) > Len(prev.relationships)
  /\ CountsOf(story) # CountsOf(prev)
  /\ Len(prev.versions) = 3
  /\ story.versions[3].snapshotData.elementsCount = CountsOf(prev)

(***************************************************************************)
(* Properties of the autosave                                              *)
(***************************************************************************)
\* The last step changed the resident story
StoryJustChanged ==
  \/ last.op \in {"createNew", "updateStory", "saveDone"}
  \/ last.op = "loadStories" /\ last.loaded

\* C10: at most one autosave timer is pending; a pending timer was started
\* 2000 ms after the latest change of the resident story and carries that
\* latest story; every change of the story leaves exactly that one fresh timer
\* (the one pending before is cancelled); a save starts only when 2000 ms have
\* passed since the latest change, with the latest story; saves are at least
\* 2000 ms of quiet apart, however many changes came in between.
C10_DebouncedAutosave ==
  /\ Cardinality(timers) <= 1
  /\ \A t \in timers :
       /\ story # NoStory
       /\ t.snap = story
       /\ t.due = lastChange + 2000
  /\ (StoryJustChanged /\ story # NoStory /\ ~loading)
       => timers = {[due |-> lastChange + 2000, snap |-> story]}
  /\ last.op = "autosave"
       => /\ last.at - last.lastChange >= 2000
          /\ last.snap = prev
          /\ timers = {}
  /\ saveCount * 2000 <= clock

\* Two changes 1000 ms apart, then one save 2000 ms after the second
C10_Witness ==
  /\ last.op = "autosave"
  /\ saveCount = 1
  /\ steps = 2
  /\ last.lastChange = 1000
  /\ last.at = 3000
  /\ last.snap = story
  /\ last.snap.synopsis = <<"s2">>
  /\ timers = {}

(***************************************************************************)
(* Properties of the error policy of the controllers                       *)
(***************************************************************************)
\* The relationship data a business rule rejects in story s
RejectedRelationshipData(s, data) ==
  \/ Falsy(data.sourceId)
  \/ Falsy(data.targetId)
  \/ data.sourceId = data.targetId
  \/ data.type \notin RELATIONSHIP_TYPES
  \/ relationshipExists(s.relationships, data.sourceId, data.targetId)

\* The element input a business rule rejects
RejectedElementData(type, data) ==
  \/ type \notin ELEMENT_TYPES
  \/ Falsy(data.name)
  \/ trim(data.name) = <<>>

\* C11: RelationshipController.create and ElementController.create never
\* raise; for an unknown type, a self reference, a duplicate pair, a missing
\* sourceId or targetId, or a missing name they return non-empty errors
\* together with the unmodified input story.
C11_RejectionsReturned ==
  /\ last.op = "RC.create"
       => /\ ~last.threw
          /\ RejectedRelationshipData(prev, last.data)
               => (last.errors # {} /\ story = prev /\ last.input = prev)
  /\ last.op = "EC.create"
       => /\ ~last.threw
          /\ RejectedElementData(last.type, last.data)
               => (last.errors # {} /\ story = prev /\ last.input = prev)

\* C12: for every relationship id present in the story, swapDirection returns
\* a story in which that relationship's sourceId is its previous targetId and
\* its targetId is its previous sourceId.
C12_SwapDirection ==
  (last.op = "RC.swapDirection" /\ RC_getById(prev, last.id) # NotFound)
    => /\ last.errors = {}
       /\ RC_getById(story, last.id) # NotFound
       /\ RC_getById(story, last.id).sourceId = RC_getById(prev, last.id).targetId
       /\ RC_getById(story, last.id).targetId = RC_getById(prev, last.id).sourceId

\* The proposals of a payload whose two endpoints findElementId resolves in s
ResolvedProposals(s, proposals) ==
  Pick(proposals,
       {i \in 1..Len(proposals) :
          /\ ~Falsy(findElementId(s, proposals[i].source))
          /\ ~Falsy(findElementId(s, proposals[i].target))})

ProposalsAdded(before, after, proposals) ==
  LET expected == ResolvedProposals(after, proposals)
      base == Len(before.relationships)
  IN /\ Len(after.relationships) = base + Len(expected)
     /\ \A i \in 1..Len(expected) :
          /\ after.relationships[base + i].sourceId =
               findElementId(after, expected[i].source)
          /\ after.relationships[base + i].targetId =
               findElementId(after, expected[i].target)
          /\ after.relationships[base + i].type = expected[i].type

\* C13: in applyContinuation a newRelationships proposal whose source or
\* target matches no element id and no element name adds no relationship
\* and raises no error, and every other proposal of the payload whose
\* endpoints resolve (also to elements of the payload's newElements) is
\* added.
C13_UnresolvedDropped ==
  (/\ last.op = "applyContinuation"
   /\ last.chapterIndex < Len(prev.chapters)
   /\ \E i \in 1..Len(last.continuation.continuation.newRelationships) :
        LET rel == last.continuation.continuation.newRelationships[i]
        IN rel.target = <<"ghost">>)
    => /\ ~last.threw
       /\ ProposalsAdded(prev, story,
                         last.continuation.continuation.newRelationships)

\* Every item of the payload's newElements is held, by name, in its bucket
NewElementsRetained(s, newElements) ==
  \A key \in DOMAIN newElements :
    \A i \in 1..Len(newElements[key]) :
      /\ key \in DOMAIN s.elements
      /\ \E j \in 1..Len(s.elements[key]) :
           s.elements[key][j].name = newElements[key][i].name

\* C20: for a valid chapterIndex and any continuation payload, also one with
\* a resolvable relationship proposal of an unknown type or an
\* updatedElements entry of an unknown element type or of an id that is in
\* no bucket, applyContinuation raises nothing and returns a story that
\* retains the items applied before the offending one.
C20_BadItemSkipped ==
  (/\ last.op = "applyContinuation"
   /\ last.chapterIndex \in 0..(Len(prev.chapters) - 1))
    => /\ ~last.threw
       /\ NewElementsRetained(story, last.continuation.continuation.newElements)

(***************************************************************************)
(* Properties of generation (SpecGenerate)                                 *)
(***************************************************************************)
\* C14: whenever the call behind generateFromIdea or generateContinuations
\* rejects, the provider reaches a state with error set to the failure
\* message and isGenerating = false, and the resident story is unchanged.
C14_FailedGenerationVisible ==
  (/\ last.op \in {"generateFromIdea.settled", "generateContinuations.settled"}
   /\ last.failed)
    => /\ error = last.message
       /\ ~isGenerating
       /\ story = prev

C14_Witness ==
  /\ last.op = "generateContinuations.settled"
  /\ last.failed
  /\ error = FailedToFetch
  /\ ~isGenerating
  /\ story # NoStory
  /\ story = prev

\* C15: when generateFromIdea is invoked with title T and idea I, the body
\* sent to the generate endpoint has title = T and idea = I, so a non-empty
\* title and idea are never rejected by the endpoint as missing.
C15_RequestCarriesInput ==
  (/\ last.op = "generateFromIdea.called"
   /\ ~Falsy(last.params.title)
   /\ ~Falsy(last.params.idea))
    => /\ ~last.call.threw
       /\ last.call.body.title = last.params.title
       /\ last.call.body.idea = last.params.idea
       /\ generateHandler(last.call.body) # 400

(***************************************************************************)
(* Properties of persistence (SpecStorage)                                 *)
(***************************************************************************)
\* C16: on the local and on the remote backend alike, after
\* StoryController.save(story, userId) has stored the story,
\* StoryController.load(story.id, userId) returns a story equal to the one
\* saved, with the same id.
C16_SaveLoadRoundTrip ==
  (/\ last.op = "SC.load"
   /\ last.after.op = "SC.save"
   /\ last.after.stored
   /\ last.storyId = last.after.story.id
   /\ last.userId = last.after.userId)
    => /\ last.result # NoStory
       /\ last.result = jsonStory(last.after.story)
       /\ last.result.id = last.storyId

(***************************************************************************)
(* Properties of element updates (SpecUpdates)                             *)
(***************************************************************************)
\* C17: in every story reachable through the provider's createElement and
\* updateElement every stored element has a name that is non-empty after
\* trimming.
C17_NamesNonEmpty ==
  story # NoStory =>
    \A e \in AllElements(story) : ~Falsy(e.name) /\ trim(e.name) # <<>>

\* The bucket and the index that hold the element with this id
PlaceOf(s, id) ==
  CHOOSE p \in {<<k, i>> : k \in DOMAIN s.elements, i \in 1..3} :
    p[2] <= Len(s.elements[p[1]]) /\ s.elements[p[1]][p[2]].id = id

\* C19: for every element held in a bucket of a story built by createStory,
\* addElement or transformGeneratedStory and every updates value that leaves
\* the name non-empty, ElementController.update returns empty errors and a
\* story whose element at the same bucket and index carries the updates, the
\* same id and the same type tag; for an id that is not in the story it
\* returns the input story with an 'Element not found' error.
C19_UpdateSucceeds ==
  last.op = "EC.update" =>
    IF EC_getById(prev, last.id) = NotFound
    THEN story = prev /\ last.errors = {<<"id", "Element not found">>}
    ELSE ~Falsy(last.updates.name) =>
           /\ last.errors = {}
           /\ LET p == PlaceOf(prev, last.id)
                  before == prev.elements[p[1]][p[2]]
                  after == story.elements[p[1]][p[2]]
              IN /\ after.name = last.updates.name
                 /\ after.id = before.id
                 /\ after.type = before.type

\* C18: a story reachable from createStory through element creation by
\* ElementController.create or StoryController.addElement has exactly the
\* five element-type keys it started with, and an element created for type T
\* is appended to the bucket of T whichever controller created it, so that
\* findElementId finds it.
C18_CanonicalBuckets ==
  origin = "createStory" =>
    /\ DOMAIN story.elements = DOMAIN EmptyElements
    /\ (last.op = "EC.create" /\ last.errors = {}) =>
         LET key == getElementStorageKey(last.type)
         IN /\ Len(story.elements[key]) = Len(prev.elements[key]) + 1
            /\ story.elements[key][Len(story.elements[key])].id = last.element.id
            /\ findElementId(story, last.element.id) = last.element.id

(***************************************************************************)
(* Properties of the functions (SpecFunctions)                             *)
(***************************************************************************)
\* The list of the payload a relationship's sourceType or targetType names
ListOf(generated, listName) ==
  LET key == OrElse(listName, <<"character", "s">>)
  IN IF key \in DOMAIN generated.elements THEN generated.elements[key] ELSE <<>>

\* The id of the element of s at position idx of the named bucket
ElementAt(s, listName, idx) ==
  s.elements[OrElse(listName, <<"character", "s">>)][idx + 1].id

\* C21: every relationship of the story transformGeneratedStory returns has
\* a sourceId and a targetId that are ids of elements of that story, namely
\* of the elements at position sourceIdx of the sourceType list and at
\* position targetIdx of the targetType list of the payload (the lists
\* defaulting to characters).
C21_IndexToId ==
  (last.op = "transformGeneratedStory" /\ ~last.threw) =>
    \A i \in 1..Len(story.relationships) :
      LET rel == last.generated.relationships[i]
      IN /\ story.relationships[i].sourceId \in ElementIds(story)
         /\ story.relationships[i].targetId \in ElementIds(story)
         /\ rel.sourceIdx < Len(ListOf(last.generated, rel.sourceType))
         /\ rel.targetIdx < Len(ListOf(last.generated, rel.targetType))
         /\ story.relationships[i].sourceId =
              ElementAt(story, rel.sourceType, rel.sourceIdx)
         /\ story.relationships[i].targetId =
              ElementAt(story, rel.targetType, rel.targetIdx)

\* C22: for a story whose elements are stored in the canonical buckets,
\* compileStoryState(story) holds for each of the five element types as many
\* abbreviated entries as the story holds elements of that type, each with
\* that element's id and name.
C22_CompiledKeepsElements ==
  (last.op = "compileStoryState"
     /\ DOMAIN story.elements = DOMAIN EmptyElements) =>
    \A type \in ELEMENT_TYPES :
      LET held == story.elements[getElementStorageKey(type)]
          entries == last.compiled.elements[type]
      IN /\ Len(entries) = Len(held)
         /\ \A i \in 1..Len(held) :
              entries[i].id = held[i].id /\ entries[i].name = held[i].name

\* C23: for every element id present in the story,
\* ElementController.duplicate(story, id) returns empty errors and a story
\* with exactly one more element, of the same type, whose name is the
\* original name followed by " (Copy)" and whose id is defined and differs
\* from the id of every other element; the original element is unchanged.
C23_DuplicateAddsCopy ==
  (last.op = "EC.duplicate" /\ EC_getById(prev, last.id) # NotFound) =>
    LET original == EC_getById(prev, last.id)
        bucket == story.elements[original.type]
        copy == bucket[Len(bucket)]
    IN /\ last.errors = {}
       /\ Len(bucket) = Len(prev.elements[original.type]) + 1
       /\ \A k \in DOMAIN prev.elements \ {original.type} :
            story.elements[k] = prev.elements[k]
       /\ copy.name = original.name \o <<" (Copy)">>
       /\ ~Falsy(copy.id)
       /\ copy.id \notin ElementIds(prev)
       /\ EC_getById(story, last.id) = original

\* C25: when fromIndex or toIndex is outside the bounds of the type's list,
\* reorder returns the very same story unchanged and raises nothing;
\* otherwise it returns a story whose list for that type is a permutation of
\* the old one with the element formerly at fromIndex now at toIndex and the
\* relative order of all other elements kept, every other bucket unchanged.
C25_ReorderPermutes ==
  last.op = "EC.reorder" =>
    /\ ~last.threw
    /\ last.input = last.arg
    /\ IF \/ last.type \notin DOMAIN last.arg.elements
          \/ last.fromIndex \notin 0..(Len(last.arg.elements[last.type]) - 1)
          \/ last.toIndex \notin 0..(Len(last.arg.elements[last.type]) - 1)
       THEN last.same /\ story = last.arg
       ELSE LET old == last.arg.elements[last.type]
                new == story.elements[last.type]
            IN /\ Len(new) = Len(old)
               /\ new[last.toIndex + 1] = old[last.fromIndex + 1]
               /\ Pick(new, {i \in 1..Len(new) : i # last.toIndex + 1})
                    = Pick(old, {i \in 1..Len(old) : i # last.fromIndex + 1})
               /\ \A k \in DOMAIN last.arg.elements \ {last.type} :
                    story.elements[k] = last.arg.elements[k]
               /\ DOMAIN story.elements = DOMAIN last.arg.elements

C25_Witness ==
  /\ last.op = "EC.reorder"
  /\ last.type = <<"character", "s">>
  /\ last.fromIndex = 0
  /\ last.toIndex = 2
  /\ Len(last.arg.elements[last.type]) = 3
  /\ [i \in 1..3 |-> story.elements[last.type][i].name]
       = <<<<"B">>, <<"C">>, <<"A">>>>

\* The trigger fields the updates supply with a value other than the story's
ChangedTriggers(s, updates) ==
  {f \in {"genre", "tone", "synopsis"} \cap (DOMAIN updates) :
     updates[f] # Undefined /\ updates[f] # s[f]}

\* More than 2 elements in total, or a chapter longer than 100 characters
Substantial(s) ==
  \/ Cardinality({<<k, i>> \in (DOMAIN s.elements) \X (1..9) :
                    i <= Len(s.elements[k])}) > 2
  \/ \E ch \in SeqRange(s.chapters) :
       ch.content \notin {Null, Undefined, Absent} /\ Len(ch.content) > 100

\* C24: shouldPromptRegeneration is true exactly when a trigger field
\* (genre, tone, synopsis) is supplied with a value different from the
\* story's and the story before the update has more than 2 elements or a
\* chapter longer than 100 characters; changedFields lists exactly the
\* changed trigger fields; a change of another field alone never prompts.
C24_RegenerationGate ==
  last.op = "updateFields" =>
    /\ last.shouldPromptRegeneration
         = (ChangedTriggers(last.arg, last.updates) # {}
              /\ Substantial(last.arg))
    /\ {last.changedFields[i] : i \in 1..Len(last.changedFields)}
         = ChangedTriggers(last.arg, last.updates)
    /\ Len(last.changedFields)
         = Cardinality(ChangedTriggers(last.arg, last.updates))
    /\ (DOMAIN last.updates) \cap {"genre", "tone", "synopsis"} = {}
         => ~last.shouldPromptRegeneration

C24_Witness ==
  /\ last.op = "updateFields"
  /\ last.shouldPromptRegeneration
  /\ AllElements(last.arg) = {}
  /\ last.changedFields = <<"tone", "synopsis">>
  /\ Len(last.arg.chapters[1].content) = 101

\* C29: whenever a generateFromIdea or generateContinuations request of the
\* StoryProvider has neither resolved nor rejected, isGenerating is true,
\* also when requests overlap and one of them finishes before the others.
C29_GeneratingWhileInFlight ==
  (\E f \in inflight : f.kind \in {"generate", "continue"}) => isGenerating

\* C30: when removeChapter(story, i) removes a chapter other than the one at
\* currentChapterIndex, the chapter at currentChapterIndex in the result has
\* the id of the chapter that was current before, whether the removed
\* chapter stood before or after it.
C30_CurrentChapterSurvives ==
  ( /\ last.op = "deleteChapter"
    /\ ~last.threw
    /\ last.chapterIndex \in 0..(Len(prev.chapters) - 1)
    /\ prev.currentChapterIndex \in 0..(Len(prev.chapters) - 1)
    /\ last.chapterIndex # prev.currentChapterIndex )
  => /\ story.currentChapterIndex \in 0..(Len(story.chapters) - 1)
     /\ story.chapters[story.currentChapterIndex + 1].id
          = prev.chapters[prev.currentChapterIndex + 1].id

\* The user can make no further change, the handlers that dispatch SET_STORY
\* (loadStories, deleteStory) have finished, and the time left suffices for
\* the timer of the latest change to run
NoFurtherChange ==
  /\ steps = budget
  /\ \A f \in inflight : f.kind = "save"
  /\ clock + AUTOSAVE_DELAY <= MaxClock

\* No save in flight and no autosave timer pending
Quiescent == timers = {} /\ inflight = {}

\* C26: a completed save does not by itself schedule another save (when no
\* timer is pending before saveStory resumes, none is pending after), and once
\* the user makes no further change, with every save succeeding, the
\* StoryProvider eventually has no save in flight and no timer pending.
C26_AutosaveQuiesces ==
  /\ [][(SaveDone /\ timers = {}) => timers' = {}]_vars
  /\ NoFurtherChange ~> Quiescent

\* C27: when a save completes, the resident story keeps every field it had
\* just before the completion, in particular a change the user made while
\* the save was in flight; only updatedAt is refreshed.
C27_SaveKeepsLaterEdit ==
  (last.op = "saveDone" /\ prev # NoStory)
    => story = [prev EXCEPT !.updatedAt = last.snap.updatedAt]

\* The story s is the one whose deletion was asked for
IsDeleted(s) == s # NoStory /\ s.id = deletion.id

\* C28: once deleteStory of the resident story has completed, and without a
\* further action of the user, neither the storage nor the provider holds
\* that story again: no timer that was pending and no save that was in flight
\* when the deletion began brings it back.
C28_DeletionStays ==
  (deletion # NoDeletion /\ deletion.done /\ steps = deletion.steps)
    => ~IsDeleted(storage) /\ ~IsDeleted(story)

====
